---- MODULE Spec2Model ----
(***************************************************************************)
(* JSVim: the inline AI completion preview of the editor (src/src/editor.js)*)
(* on top of TextBuffer (src/src/text-buffer.js), ModeManager               *)
(* (src/src/syntax-highlighter.js, second half) and AIService               *)
(* (src/src/command-parser.js, last class).                                 *)
(*                                                                         *)
(* JavaScript strings are TLA+ strings; TLC evaluates Len, \o and SubSeq on *)
(* them.  Rows and columns are 0-based as in the source; the falsy values   *)
(* null and '' of a string field are both the empty string.                *)
(***************************************************************************)
EXTENDS Integers, Sequences, FiniteSets, TLC

(***************************************************************************)
(* String primitives of the JavaScript runtime used by the source.         *)
(***************************************************************************)
Min(a, b) == IF a < b THEN a ELSE b

Max(a, b) == IF a > b THEN a ELSE b

\* s[i] for a 0-based index inside the string
charAt(s, i) == SubSeq(s, i + 1, i + 1)

\* String.prototype.slice / substring for 0 <= a, clamped to the length
slice(s, a, e) == SubSeq(s, Min(a, Len(s)) + 1, Min(e, Len(s)))

sliceFrom(s, a) == SubSeq(s, Min(a, Len(s)) + 1, Len(s))

\* the characters \s matches and trim() strips, among those the model uses
WhiteSpace == {" ", "\t", "\n", "\r"}

minOf(S) == CHOOSE x \in S : \A y \in S : x <= y

maxOf(S) == CHOOSE x \in S : \A y \in S : x >= y

\* the 1-based positions of the characters of s that are not white space
inked(s) == {i \in 1..Len(s) : SubSeq(s, i, i) \notin WhiteSpace}

trimStart(s) == IF inked(s) = {} THEN "" ELSE SubSeq(s, minOf(inked(s)), Len(s))

trimEnd(s) == IF inked(s) = {} THEN "" ELSE SubSeq(s, 1, maxOf(inked(s)))

trim(s) == IF inked(s) = {} THEN "" ELSE SubSeq(s, minOf(inked(s)), maxOf(inked(s)))

startsWith(s, p) == Len(p) <= Len(s) /\ SubSeq(s, 1, Len(p)) = p

\* String.prototype.includes
includes(s, p) ==
  \E i \in 1..(Len(s) - Len(p) + 1) : SubSeq(s, i, i + Len(p) - 1) = p

\* String.prototype.indexOf: 0-based index of the first occurrence, or -1
indexOf(s, p) ==
  IF includes(s, p)
    THEN (CHOOSE i \in 1..(Len(s) - Len(p) + 1) :
            /\ SubSeq(s, i, i + Len(p) - 1) = p
            /\ \A j \in 1..(i - 1) : SubSeq(s, j, j + Len(p) - 1) # p) - 1
    ELSE -1

\* Array.prototype.join('\n')
RECURSIVE joinLines(_)
joinLines(ls) ==
  IF Len(ls) = 0 THEN ""
  ELSE IF Len(ls) = 1 THEN ls[1]
  ELSE ls[1] \o "\n" \o joinLines(Tail(ls))

\* String.prototype.split(sep) for a separator of one character
RECURSIVE splitOn(_, _)
splitOn(s, sep) ==
  LET cutAt(i) ==
        IF i < 0 THEN <<s>> ELSE <<slice(s, 0, i)>> \o splitOn(sliceFrom(s, i + 1), sep)
  IN  cutAt(indexOf(s, sep))

\* String.prototype.split('\n')
RECURSIVE splitLines(_)
splitLines(s) ==
  LET cutAt(i) ==
        IF i < 0 THEN <<s>> ELSE <<slice(s, 0, i)>> \o splitLines(sliceFrom(s, i + 1))
  IN  cutAt(indexOf(s, "\n"))

\* the printable ASCII characters 0x20..0x7E in code order
\* (the lexer reads a lone grave accent inside a string as the start of a
\* quotation, so the character is cut out of a two-character literal)
BackTick == SubSeq("`'", 1, 1)

PrintableStr ==
  " !\"#$%&'()*+,-./0123456789:;<=>?@ABCDEFGHIJKLMNOPQRSTUVWXYZ[\\]^_"
  \o BackTick \o "abcdefghijklmnopqrstuvwxyz{|}~"

Printable == {SubSeq(PrintableStr, i, i) : i \in 1..Len(PrintableStr)}

\* String.prototype.charCodeAt for one character
CodeTable ==
  [c \in Printable \cup {"\t", "\n", "\r"} |->
     IF c = "\t" THEN 9
     ELSE IF c = "\n" THEN 10
     ELSE IF c = "\r" THEN 13
     ELSE 31 + (CHOOSE i \in 1..Len(PrintableStr) : SubSeq(PrintableStr, i, i) = c)]

charCode(c) == CodeTable[c]

\* String.prototype.toLowerCase
LowerTable ==
  [c \in Printable \cup {"\t", "\n", "\r"} |->
     IF c \in Printable /\ CodeTable[c] >= 65 /\ CodeTable[c] <= 90
       THEN SubSeq(PrintableStr, CodeTable[c] - 31 + 32, CodeTable[c] - 31 + 32)
       ELSE c]

RECURSIVE toLowerCase(_)
toLowerCase(s) ==
  IF Len(s) = 0 THEN ""
  ELSE IF Len(s) = 1 THEN (IF s \in DOMAIN LowerTable THEN LowerTable[s] ELSE s)
  ELSE toLowerCase(SubSeq(s, 1, Len(s) \div 2))
       \o toLowerCase(SubSeq(s, (Len(s) \div 2) + 1, Len(s)))

(***************************************************************************)
(* TextBuffer: a record [content, row, col, modified].                     *)
(***************************************************************************)
bufLine(b) == b.content[b.row + 1]

insertCharacter(b, ch) ==
  LET line == bufLine(b)
  IN  [b EXCEPT !.content[b.row + 1] = slice(line, 0, b.col) \o ch \o sliceFrom(line, b.col),
                !.col = b.col + 1,
                !.modified = TRUE]

insertNewLine(b) ==
  LET line == bufLine(b)
      rest == sliceFrom(line, b.col)
      kept == slice(line, 0, b.col)
  IN  [b EXCEPT !.content = SubSeq(b.content, 1, b.row) \o <<kept, rest>>
                             \o SubSeq(b.content, b.row + 2, Len(b.content)),
                !.row = b.row + 1,
                !.col = 0,
                !.modified = TRUE]

deleteCharacter(b) ==
  IF b.col > 0
    THEN LET line == bufLine(b)
         IN  [b EXCEPT !.content[b.row + 1] = slice(line, 0, b.col - 1) \o sliceFrom(line, b.col),
                       !.col = b.col - 1,
                       !.modified = TRUE]
  ELSE IF b.row > 0
    THEN LET prevLine == b.content[b.row]
             currLine == b.content[b.row + 1]
         IN  [b EXCEPT !.content = SubSeq(b.content, 1, b.row - 1) \o <<prevLine \o currLine>>
                                    \o SubSeq(b.content, b.row + 2, Len(b.content)),
                       !.row = b.row - 1,
                       !.col = Len(prevLine),
                       !.modified = TRUE]
  ELSE b

\* moveCursorUp without the adjustment of the column
moveCursorUpKeepingCol(b) ==
  IF b.row > 0 THEN [b EXCEPT !.row = b.row - 1] ELSE b

moveCursorUp(b) ==
  IF b.row > 0
    THEN [b EXCEPT !.row = b.row - 1, !.col = Min(b.col, Len(b.content[b.row]))]
    ELSE b

moveCursorDown(b) ==
  IF b.row < Len(b.content) - 1
    THEN [b EXCEPT !.row = b.row + 1, !.col = Min(b.col, Len(b.content[b.row + 2]))]
    ELSE b

moveCursorLeft(b) ==
  IF b.col > 0 THEN [b EXCEPT !.col = b.col - 1]
  ELSE IF b.row > 0 THEN [b EXCEPT !.row = b.row - 1, !.col = Len(b.content[b.row])]
  ELSE b

moveCursorRight(b) ==
  IF b.col < Len(bufLine(b)) THEN [b EXCEPT !.col = b.col + 1]
  ELSE IF b.row < Len(b.content) - 1 THEN [b EXCEPT !.row = b.row + 1, !.col = 0]
  ELSE b

\* validateCursor, run by getCursor() before it returns a copy of the cursor
validateCursor(b) ==
  LET maxRow == Max(0, Len(b.content) - 1)
      currentLine == IF b.row >= 0 /\ b.row < Len(b.content) THEN b.content[b.row + 1] ELSE ""
      maxCol == Len(currentLine)
      row == IF b.row < 0 THEN 0 ELSE IF b.row > maxRow THEN maxRow ELSE b.row
      col == IF b.col < 0 THEN 0 ELSE IF b.col > maxCol THEN maxCol ELSE b.col
  IN  [b EXCEPT !.row = row, !.col = col]

(***************************************************************************)
(* AIService (src/src/command-parser.js, the class from line 1265 on).     *)
(***************************************************************************)
maxLines == 50

maxChars == 800

maxCacheSize == 50

\* the truncation boundaries of getCodeContext, in the order they are tried
boundaries == <<"\n\n", "\nfunction ", "\nclass ", "\ndef ", "\n  ", "\n">>

\* the first boundary with 0 < index < length / 2 gives index + its length
RECURSIVE bestStartFrom(_, _)
bestStartFrom(context, k) ==
  IF k > Len(boundaries) THEN 0
  ELSE LET index == indexOf(context, boundaries[k])
       IN  IF index > 0 /\ 2 * index < Len(context)
             THEN index + Len(boundaries[k])
             ELSE bestStartFrom(context, k + 1)

\* getCodeContext without the truncation to maxChars
getCodeContextUntruncated(lines, cursorRow, cursorCol) ==
  LET startRow == Max(0, cursorRow - maxLines + 1)
      cut(contextLines) ==
        IF Len(contextLines) > 0
          THEN [contextLines EXCEPT ![Len(contextLines)] =
                  slice(contextLines[Len(contextLines)], 0, cursorCol)]
          ELSE contextLines
  IN  joinLines(cut(SubSeq(lines, startRow + 1, Min(cursorRow + 1, Len(lines)))))

\* getCodeContext taking the cursor line whole
getCodeContextWholeLine(lines, cursorRow, cursorCol) ==
  LET startRow == Max(0, cursorRow - maxLines + 1)
      fromBest(tail, bestStart) == IF bestStart > 0 THEN sliceFrom(tail, bestStart) ELSE tail
      truncated(tail) == fromBest(tail, bestStartFrom(tail, 1))
      limited(joined) ==
        IF Len(joined) > maxChars
          THEN truncated(sliceFrom(joined, Len(joined) - maxChars))
          ELSE joined
  IN  limited(joinLines(SubSeq(lines, startRow + 1, Min(cursorRow + 1, Len(lines)))))

getCodeContext(lines, cursorRow, cursorCol) ==
  LET startRow == Max(0, cursorRow - maxLines + 1)
      cut(contextLines) ==
        IF Len(contextLines) > 0
          THEN [contextLines EXCEPT ![Len(contextLines)] =
                  slice(contextLines[Len(contextLines)], 0, cursorCol)]
          ELSE contextLines
      fromBest(tail, bestStart) == IF bestStart > 0 THEN sliceFrom(tail, bestStart) ELSE tail
      truncated(tail) == fromBest(tail, bestStartFrom(tail, 1))
      limited(joined) ==
        IF Len(joined) > maxChars
          THEN truncated(sliceFrom(joined, Len(joined) - maxChars))
          ELSE joined
  IN  limited(joinLines(cut(SubSeq(lines, startRow + 1, Min(cursorRow + 1, Len(lines))))))

\* One round of  hash = ((hash << 5) - hash) + char; hash = hash & hash  on the
\* 32-bit value held as two 16-bit halves <<hi, lo>> (31 * hash + char mod 2^32).
hashStep(h, code) ==
  LET lo == h[2] * 31 + code
      hi == h[1] * 31 + (lo \div 65536)
  IN  <<hi % 65536, lo % 65536>>

RECURSIVE hashFrom(_, _, _)
hashFrom(h, context, i) ==
  IF i > Len(context) THEN h
  ELSE hashFrom(hashStep(h, charCode(SubSeq(context, i, i))), context, i + 1)

\* Number.prototype.toString for n >= 0
RECURSIVE toStr(_)
toStr(n) ==
  IF n < 10 THEN SubSeq("0123456789", n + 1, n + 1)
  ELSE toStr(n \div 10) \o SubSeq("0123456789", (n % 10) + 1, (n % 10) + 1)

\* getCacheKey: hash.toString() of the signed 32-bit hash
getCacheKey(context) ==
  LET h == hashFrom(<<0, 0>>, context, 1)
  IN  IF h = <<32768, 0>> THEN "-2147483648"
      ELSE IF h[1] >= 32768 THEN "-" \o toStr((65536 - h[1]) * 65536 - h[2])
      ELSE toStr(h[1] * 65536 + h[2])

\* The cache is a Map: a sequence of [key, value] in insertion order.
cacheHas(c, key) == \E i \in 1..Len(c) : c[i].key = key

cacheGet(c, key) == c[CHOOSE i \in 1..Len(c) : c[i].key = key].value

\* Map.prototype.set: an existing key keeps its place, a new one goes last
cacheSet(c, key, value) ==
  IF cacheHas(c, key)
    THEN [i \in 1..Len(c) |-> IF c[i].key = key THEN [key |-> key, value |-> value] ELSE c[i]]
    ELSE Append(c, [key |-> key, value |-> value])

\* cacheResult deleting the newest entry instead of the oldest
cacheResultKeepingAll(c, key, suggestion) == cacheSet(c, key, suggestion)

cacheResultDropNewest(c, key, suggestion) ==
  cacheSet(IF Len(c) >= maxCacheSize THEN SubSeq(c, 1, Len(c) - 1) ELSE c, key, suggestion)

cacheResult(c, key, suggestion) ==
  cacheSet(IF Len(c) >= maxCacheSize THEN Tail(c) ELSE c, key, suggestion)

(***************************************************************************)
(* Regular expressions of the source, as data, and a backtracking matcher  *)
(* with the priorities of the JavaScript engine (greedy before shorter,    *)
(* lazy before longer, alternatives left to right).  A pattern is a        *)
(* sequence of items; positions are 1-based indices of the next character. *)
(***************************************************************************)
Lit(x) == [k |-> "lit", s |-> x, ci |-> FALSE]

\* a literal under the /i flag
LitI(x) == [k |-> "lit", s |-> x, ci |-> TRUE]

\* a character class repeated min..max times (max = -1: unbounded)
Rep(set, neg, min, max, lazy) ==
  [k |-> "rep", set |-> set, neg |-> neg, min |-> min, max |-> max, lazy |-> lazy]

Star(set) == Rep(set, FALSE, 0, -1, FALSE)

Plus(set) == Rep(set, FALSE, 1, -1, FALSE)

One(set) == Rep(set, FALSE, 1, 1, FALSE)

Opt(set) == Rep(set, FALSE, 0, 1, FALSE)

NotStar(set) == Rep(set, TRUE, 0, -1, FALSE)

NotPlus(set) == Rep(set, TRUE, 1, -1, FALSE)

\* (?:a|b|...) : alternatives tried in order; (?:a)? is Alt(<<a, <<>>>>)
Alt(alts) == [k |-> "alt", a |-> alts]

Open(n) == [k |-> "open", n |-> n]

Close(n) == [k |-> "close", n |-> n]

\* ^ , with or without the /m flag
Bol(m) == [k |-> "bol", m |-> m]

\* $ without the /m flag
Eol == [k |-> "eol"]

Group(n, items) == <<Open(n)>> \o items \o <<Close(n)>>

Letters ==
  {SubSeq(PrintableStr, i, i) : i \in (34..59) \cup (66..91)}

Digits == {SubSeq(PrintableStr, i, i) : i \in 17..26}

\* \w
WordChars == Letters \cup Digits \cup {"_"}

\* the characters . does not match
LineTerminators == {"\n", "\r"}

litAt(s, i, x, ci) ==
  /\ i + Len(x) - 1 <= Len(s)
  /\ IF ci THEN toLowerCase(SubSeq(s, i, i + Len(x) - 1)) = toLowerCase(x)
           ELSE SubSeq(s, i, i + Len(x) - 1) = x

inClass(c, it) == (c \in it.set) # it.neg

\* how many consecutive characters from i the class takes, at most it.max
runLen(s, i, it) ==
  LET limit == IF it.max < 0 THEN Len(s) - i + 1 ELSE Min(it.max, Len(s) - i + 1)
  IN  maxOf({n \in 0..limit : \A j \in 0..(n - 1) : inClass(SubSeq(s, i + j, i + j), it)})

NoCaps == [n \in 1..2 |-> <<0, -1>>]

Fail == [ok |-> FALSE, end |-> 0, caps |-> NoCaps]

RECURSIVE rxMatch(_, _, _, _)
RECURSIVE rxRep(_, _, _, _, _, _, _)
RECURSIVE rxAlt(_, _, _, _, _, _)
\* the items matched from position i on
rxMatch(items, s, i, caps) ==
  IF Len(items) = 0 THEN [ok |-> TRUE, end |-> i, caps |-> caps]
  ELSE LET it == items[1]
           rest == Tail(items)
       IN  CASE it.k = "lit" ->
                  IF litAt(s, i, it.s, it.ci) THEN rxMatch(rest, s, i + Len(it.s), caps) ELSE Fail
             [] it.k = "rep" ->
                  LET run == runLen(s, i, it)
                  IN  IF run < it.min THEN Fail
                      ELSE rxRep(rest, s, i, caps, it.min, run, it.lazy)
             [] it.k = "alt" -> rxAlt(it.a, 1, rest, s, i, caps)
             [] it.k = "open" -> rxMatch(rest, s, i, [caps EXCEPT ![it.n] = <<i, -1>>])
             [] it.k = "close" -> rxMatch(rest, s, i, [caps EXCEPT ![it.n] = <<caps[it.n][1], i>>])
             [] it.k = "bol" ->
                  IF i = 1 \/ (it.m /\ SubSeq(s, i - 1, i - 1) \in LineTerminators)
                    THEN rxMatch(rest, s, i, caps) ELSE Fail
             [] it.k = "eol" ->
                  IF i = Len(s) + 1 THEN rxMatch(rest, s, i, caps) ELSE Fail

\* a repetition takes the longest run that lets the rest match (the
\* shortest one when lazy)
rxRep(rest, s, i, caps, lo, hi, lazy) ==
  LET taking(fits) ==
        IF fits = {} THEN Fail
        ELSE rxMatch(rest, s, i + (IF lazy THEN minOf(fits) ELSE maxOf(fits)), caps)
  IN  taking({n \in lo..hi : rxMatch(rest, s, i + n, caps).ok})

rxAlt(alts, j, rest, s, i, caps) ==
  IF j > Len(alts) THEN Fail
  ELSE LET orNext(r) == IF r.ok THEN r ELSE rxAlt(alts, j + 1, rest, s, i, caps)
       IN  orNext(rxMatch(alts[j] \o rest, s, i, caps))

\* the leftmost match starting at from or later: [ok, at, end, caps]
rxSearch(items, s, from) ==
  LET found(at, r) == [ok |-> TRUE, at |-> at, end |-> r.end, caps |-> r.caps]
      leftmost(starts) ==
        IF starts = {} THEN [ok |-> FALSE, at |-> 0, end |-> 0, caps |-> NoCaps]
        ELSE found(minOf(starts), rxMatch(items, s, minOf(starts), NoCaps))
  IN  leftmost({p \in from..(Len(s) + 1) : rxMatch(items, s, p, NoCaps).ok})

capText(s, caps, n) ==
  IF caps[n][2] < 0 THEN "" ELSE SubSeq(s, caps[n][1], caps[n][2] - 1)

\* a replacement template: a sequence of texts and capture references ($n)
Txt(x) == <<"txt", x>>

Cap(n) == <<"cap", n>>

RECURSIVE expand(_, _, _)
expand(tmpl, s, caps) ==
  IF Len(tmpl) = 0 THEN ""
  ELSE (IF tmpl[1][1] = "cap" THEN capText(s, caps, tmpl[1][2]) ELSE tmpl[1][2])
       \o expand(Tail(tmpl), s, caps)

\* String.prototype.replace with a /g regular expression
RECURSIVE replaceAllFrom(_, _, _, _)
replaceAllFrom(items, tmpl, s, pos) ==
  LET replaced(m) ==
        IF ~m.ok THEN SubSeq(s, pos, Len(s))
        ELSE IF m.end = m.at
          THEN SubSeq(s, pos, m.at - 1) \o expand(tmpl, s, m.caps)
               \o (IF m.at <= Len(s)
                     THEN SubSeq(s, m.at, m.at) \o replaceAllFrom(items, tmpl, s, m.at + 1)
                     ELSE "")
        ELSE SubSeq(s, pos, m.at - 1) \o expand(tmpl, s, m.caps)
             \o replaceAllFrom(items, tmpl, s, m.end)
  IN  replaced(rxSearch(items, s, pos))

\* (the text is evaluated first, so that a chain of replacements is not
\* evaluated from inside the search of the last one)
replaceAll(items, tmpl, s) ==
  IF Len(s) = 0 THEN replaceAllFrom(items, tmpl, "", 1) ELSE replaceAllFrom(items, tmpl, s, 1)

\* String.prototype.replace with a regular expression without /g
replaceFirst(items, tmpl, s) ==
  LET replaced(m) ==
        IF ~m.ok THEN s
        ELSE SubSeq(s, 1, m.at - 1) \o expand(tmpl, s, m.caps) \o SubSeq(s, m.end, Len(s))
  IN  replaced(rxSearch(items, s, 1))

(***************************************************************************)
(* AIService.sanitizeSuggestion (src/src/command-parser.js:1495-1635): its *)
(* regular expressions in source order, then the pipeline.                 *)
(***************************************************************************)
\* the characters \x1b and \x07, written raw between the quotes
ESC == ""

BEL == ""

\* Characters above U+00FF cannot be written in a string; one character of
\* Latin-1 stands for each class the source treats alike: BoxChar for the
\* box-drawing characters of line 1587, LongDash for the dashes of line 1589.
BoxChar == "¦"

LongDash == "¬"

Fence == BackTick \o BackTick \o BackTick

AnyStarLazy == Rep({}, TRUE, 0, -1, TRUE)

DotStar == Rep(LineTerminators, TRUE, 0, -1, FALSE)

DotPlusLazy == Rep(LineTerminators, TRUE, 1, -1, TRUE)

RxEcho ==
  <<Bol(FALSE), Alt(<< <<LitI("COMPLETION:")>>, <<LitI("COMPLETE:")>>,
                       <<LitI("OUTPUT:")>>, <<LitI("RESULT:")>> >>)>>

RxLanguage ==
  <<Bol(FALSE), Alt(<< <<LitI("javascript")>>, <<LitI("python")>>, <<LitI("java")>>,
                       <<LitI("css")>>, <<LitI("html")>>, <<LitI("json")>>,
                       <<LitI("xml")>>, <<LitI("sql")>> >>),
    Star(WhiteSpace)>>

RxCodeBlock ==
  <<Lit(Fence), Alt(<< <<Star(Letters), Lit("\n")>>, <<>> >>)>>
  \o Group(1, <<AnyStarLazy>>) \o <<Lit(Fence)>>

RxFenceOpen == <<Lit(Fence), Star(Letters), Opt({"\n"})>>

RxFence == <<Lit(Fence)>>

RxSpanPair ==
  <<Lit("<span"), NotStar({">"}), Lit(">")>> \o Group(1, <<NotStar({"<"})>>) \o <<Lit("</span>")>>

RxBrokenSpanOpen ==
  <<Lit("span"), Plus(WhiteSpace), Lit("class="), NotStar({">"} \cup WhiteSpace), Lit(">")>>

RxSpanOpen == <<Lit("<span"), NotStar({">"}), Lit(">")>>

RxSpanClose == <<Lit("</span>")>>

RxSpanFragment == <<Lit("span>")>>

RxSpanCloseFragment == <<Lit("/span>")>>

RxClassAttr == <<Lit("class="), NotStar({">"} \cup WhiteSpace), Star(WhiteSpace)>>

RxHljs == <<Lit("hljs-"), Plus(Letters \cup {"-"}), Star(WhiteSpace)>>

RxStyleAttr == <<Lit("style="), NotStar({">"} \cup WhiteSpace), Star(WhiteSpace)>>

RxBareInclude ==
  <<Bol(TRUE)>> \o Group(1, <<Star(WhiteSpace)>>)
  \o <<Lit("include"), Star(WhiteSpace), Lit("<")>> \o Group(2, <<NotPlus({">"})>>)
  \o <<Lit(">")>>

RxInclude == <<Lit("#include"), Star(WhiteSpace), Lit("<"), NotPlus({">"}), Lit(">")>>

RxComparison ==
  <<Plus(WordChars), Star(WhiteSpace), One({"<", ">"}), Opt({"="}), Star(WhiteSpace),
    Plus(WordChars)>>

RxTag == <<Lit("<"), NotStar({">"}), Lit(">")>>

RxInlineCode == <<Lit(BackTick)>> \o Group(1, <<NotStar({BackTick})>>) \o <<Lit(BackTick)>>

RxBold == <<Lit("**")>> \o Group(1, <<NotPlus({"*"})>>) \o <<Lit("**")>>

RxItalic == <<Lit("*")>> \o Group(1, <<NotPlus({"*"})>>) \o <<Lit("*")>>

RxHeader == <<Rep({"#"}, FALSE, 1, 6, FALSE), Star(WhiteSpace)>>

RxCsi == <<Lit(ESC \o "["), Star(Digits \cup {";"}), One(Letters)>>

RxSgr == <<Lit(ESC \o "["), Star(Digits \cup {";"}), Lit("m")>>

RxCursor ==
  <<Lit(ESC \o "["), Star(Digits \cup {";"}), One({"H", "f", "A", "B", "C", "D", "n", "K"})>>

RxOsc == <<Lit(ESC \o "]"), Star(Digits \cup {";"}), Lit(";"), NotStar({BEL}), Lit(BEL)>>

RxEscLetter == <<Lit(ESC), One({"c", "d", "e", "f", "A", "B", "C", "D", "E", "F"})>>

RxBox == <<One({BoxChar})>>

RxQuotes == <<One({"\"", "'"})>>

RxDashes == <<One({LongDash})>>

\* lines 1592 and 1595 together: everything but printable ASCII, \t, \n, \r
RxUnsafe == <<Rep(Printable \cup {"\t", "\n", "\r"}, TRUE, 1, 1, FALSE)>>

RxBlanks == <<Plus({" ", "\t"})>>

RxBlankLines ==
  <<Lit("\n"), Star(WhiteSpace), Lit("\n"), Star(WhiteSpace), Lit("\n")>>

codePatterns ==
  << <<LitI("here"), Opt({"'"}), Opt({"s", "S"}), Star(WhiteSpace),
       Alt(<< <<LitI("the"), Star(WhiteSpace)>>, <<>> >>),
       Alt(<< <<LitI("completion")>>, <<LitI("code")>>, <<LitI("suggestion")>> >>),
       Lit(":"), Star(WhiteSpace)>> \o Group(1, <<DotStar>>),
     <<LitI("the"), Star(WhiteSpace),
       Alt(<< <<LitI("completion")>>, <<LitI("code")>>, <<LitI("suggestion")>> >>),
       Star(WhiteSpace),
       Alt(<< <<LitI("is")>>, <<LitI("would"), Star(WhiteSpace), LitI("be")>> >>),
       Lit(":"), Star(WhiteSpace)>> \o Group(1, <<DotStar>>),
     <<LitI("complete"), Star(WhiteSpace), Alt(<< <<LitI("with")>>, <<LitI("as")>> >>),
       Lit(":"), Star(WhiteSpace)>> \o Group(1, <<DotStar>>),
     <<LitI("add:"), Star(WhiteSpace)>> \o Group(1, <<DotStar>>) >>

endPatterns ==
  << <<Bol(FALSE)>> \o Group(1, <<DotPlusLazy>>)
       \o <<Star(WhiteSpace),
            Alt(<< <<LitI("this")>>, <<LitI("that")>>, <<LitI("which")>> >>),
            Plus(WhiteSpace),
            Alt(<< <<LitI("complete"), Opt({"s", "S"})>>, <<LitI("finishe"), Opt({"s", "S"})>>,
                   <<LitI("end"), Opt({"s", "S"})>> >>),
            DotStar>>,
     <<Bol(FALSE)>> \o Group(1, <<DotPlusLazy>>)
       \o <<Star(WhiteSpace),
            Alt(<< <<LitI("to"), Plus(WhiteSpace)>>, <<>> >>),
            Alt(<< <<LitI("complete")>>, <<LitI("finish")>>, <<LitI("end")>> >>),
            DotStar>> >>

\* replace(RxInclude, callback): the n-th match becomes __INCLUDE_n__
RECURSIVE protectIncludes(_, _, _)
protectIncludes(s, pos, saved) ==
  LET placed(m, placeholder, r) ==
        [text |-> SubSeq(s, pos, m.at - 1) \o placeholder \o r.text, saved |-> r.saved]
      held(m, placeholder) ==
        placed(m, placeholder,
               protectIncludes(s, m.end, Append(saved, <<placeholder, SubSeq(s, m.at, m.end - 1)>>)))
      protected(m) ==
        IF ~m.ok THEN [text |-> SubSeq(s, pos, Len(s)), saved |-> saved]
        ELSE held(m, "__INCLUDE_" \o toStr(Len(saved)) \o "__")
  IN  protected(rxSearch(RxInclude, s, pos))

\* replace(RxComparison, callback): a match at offset i becomes __COMP_i__
RECURSIVE protectComparisons(_, _, _)
protectComparisons(s, pos, saved) ==
  LET placed(m, placeholder, r) ==
        [text |-> SubSeq(s, pos, m.at - 1) \o placeholder \o r.text, saved |-> r.saved]
      held(m, placeholder) ==
        placed(m, placeholder,
               protectComparisons(s, m.end, Append(saved, <<placeholder, SubSeq(s, m.at, m.end - 1)>>)))
      protected(m) ==
        IF ~m.ok THEN [text |-> SubSeq(s, pos, Len(s)), saved |-> saved]
        ELSE held(m, "__COMP_" \o toStr(m.at - 1) \o "__")
  IN  protected(rxSearch(RxComparison, s, pos))

\* the replacement patterns $$ $& $` $' of String.prototype.replace(string, string)
RECURSIVE expandDollar(_, _, _, _)
expandDollar(repl, s, at, len) ==
  IF Len(repl) = 0 THEN ""
  ELSE IF Len(repl) >= 2 /\ SubSeq(repl, 1, 1) = "$"
            /\ SubSeq(repl, 2, 2) \in {"$", "&", BackTick, "'"}
    THEN (CASE SubSeq(repl, 2, 2) = "$" -> "$"
            [] SubSeq(repl, 2, 2) = "&" -> SubSeq(s, at, at + len - 1)
            [] SubSeq(repl, 2, 2) = BackTick -> SubSeq(s, 1, at - 1)
            [] OTHER -> SubSeq(s, at + len, Len(s)))
         \o expandDollar(SubSeq(repl, 3, Len(repl)), s, at, len)
  ELSE SubSeq(repl, 1, 1) \o expandDollar(SubSeq(repl, 2, Len(repl)), s, at, len)

\* cleaned.replace(placeholder, original): the first occurrence only
replaceString(s, placeholder, original) ==
  LET putAt(i) ==
        IF i < 0 THEN s
        ELSE SubSeq(s, 1, i) \o expandDollar(original, s, i + 1, Len(placeholder))
             \o SubSeq(s, i + Len(placeholder) + 1, Len(s))
  IN  putAt(indexOf(s, placeholder))

RECURSIVE restoreAll(_, _)
restoreAll(s, saved) ==
  IF Len(saved) = 0 THEN s
  ELSE restoreAll(replaceString(s, saved[1][1], saved[1][2]), Tail(saved))

\* lines 1501-1514: prompt echo, language tag, fenced code block
stripWrapping(suggestion) ==
  LET unfenced(b, m) ==
        IF m.ok /\ capText(b, m.caps, 1) # ""
          THEN trim(capText(b, m.caps, 1))
          ELSE replaceAll(RxFence, <<>>, replaceAll(RxFenceOpen, <<>>, b))
      unwrapped(b) == unfenced(b, rxSearch(RxCodeBlock, b, 1))
  IN  unwrapped(replaceFirst(RxLanguage, <<>>, replaceFirst(RxEcho, <<>>, suggestion)))

\* stripSpans removing complete spans together with the text they wrap
stripSpansWithText(s) ==
  LET a == replaceAll(RxSpanPair, <<>>, s)
      b == replaceAll(RxBrokenSpanOpen, <<>>, a)
      c == replaceAll(RxSpanOpen, <<>>, b)
      d == replaceAll(RxSpanClose, <<>>, c)
      e == replaceAll(RxSpanFragment, <<>>, d)
      f == replaceAll(RxSpanCloseFragment, <<>>, e)
      g == replaceAll(RxClassAttr, <<>>, f)
      h == replaceAll(RxHljs, <<>>, g)
  IN  replaceAll(RxStyleAttr, <<>>, h)

\* lines 1518-1530: spans, their fragments, attribute and class-name remains
stripSpans(s) ==
  LET a == replaceAll(RxSpanPair, <<Cap(1)>>, s)
      b == replaceAll(RxBrokenSpanOpen, <<>>, a)
      c == replaceAll(RxSpanOpen, <<>>, b)
      d == replaceAll(RxSpanClose, <<>>, c)
      e == replaceAll(RxSpanFragment, <<>>, d)
      f == replaceAll(RxSpanCloseFragment, <<>>, e)
      g == replaceAll(RxClassAttr, <<>>, f)
      h == replaceAll(RxHljs, <<>>, g)
  IN  replaceAll(RxStyleAttr, <<>>, h)

\* lines 1534-1562: repair and protect includes, protect comparisons, remove
\* the remaining tags, restore includes, then comparisons
stripTags(s) ==
  LET restored(inc, cmp) ==
        restoreAll(restoreAll(replaceAll(RxTag, <<>>, cmp.text), inc.saved), cmp.saved)
      untagged(inc) == restored(inc, protectComparisons(inc.text, 1, <<>>))
  IN  untagged(protectIncludes(
        replaceAll(RxBareInclude, <<Cap(1), Txt("#include <"), Cap(2), Txt(">")>>, s),
        1, <<>>))

\* lines 1565-1569
decodeEntities(s) ==
  LET a == replaceAll(<<Lit("&lt;")>>, <<Txt("<")>>, s)
      b == replaceAll(<<Lit("&gt;")>>, <<Txt(">")>>, a)
      c == replaceAll(<<Lit("&amp;")>>, <<Txt("&")>>, b)
      d == replaceAll(<<Lit("&quot;")>>, <<Txt("\"")>>, c)
  IN  replaceAll(<<Lit("&#39;")>>, <<Txt("'")>>, d)

\* lines 1572-1577
stripMarkdown(s) ==
  LET a == replaceAll(RxInlineCode, <<Cap(1)>>, s)
      b == replaceAll(RxBold, <<Cap(1)>>, a)
      c == replaceAll(RxItalic, <<Cap(1)>>, b)
  IN  replaceAll(RxHeader, <<>>, c)

\* lines 1580-1584
stripAnsi(s) ==
  LET a == replaceAll(RxCsi, <<>>, s)
      b == replaceAll(RxSgr, <<>>, a)
      c == replaceAll(RxCursor, <<>>, b)
      d == replaceAll(RxOsc, <<>>, c)
  IN  replaceAll(RxEscLetter, <<>>, d)

\* normalizeChars without the two removals of lines 1592 and 1595
normalizeCharsOnly(s) ==
  LET a == replaceAll(RxBox, <<Txt("|")>>, s)
      b == replaceAll(RxQuotes, <<Txt("\"")>>, a)
  IN  replaceAll(RxDashes, <<Txt("-")>>, b)

\* lines 1587-1595
normalizeChars(s) ==
  LET a == replaceAll(RxBox, <<Txt("|")>>, s)
      b == replaceAll(RxQuotes, <<Txt("\"")>>, a)
      c == replaceAll(RxDashes, <<Txt("-")>>, b)
  IN  replaceAll(RxUnsafe, <<>>, c)

\* lines 1598-1602
cleanWhitespace(s) ==
  trim(replaceAll(RxBlankLines, <<Txt("\n\n")>>, replaceAll(RxBlanks, <<Txt(" ")>>, s)))

\* lines 1612-1618 and 1626-1632: the first pattern that matches with a
\* non-empty first group replaces the text by that group, trimmed
RECURSIVE firstGroup(_, _, _)
firstGroup(patterns, k, s) ==
  IF k > Len(patterns) THEN s
  ELSE LET grouped(m) ==
             IF m.ok /\ capText(s, m.caps, 1) # ""
               THEN trim(capText(s, m.caps, 1))
               ELSE firstGroup(patterns, k + 1, s)
       IN  grouped(rxSearch(patterns[k], s, 1))

(***************************************************************************)
(* AIService.getAISuggestion, the part after the provider answered         *)
(* (src/src/command-parser.js:1404-1458), and the catch block of           *)
(* Editor.handleAIPreviewCompletion (src/src/editor.js:649-658).           *)
(***************************************************************************)
apiUrl == "https://api.groq.com/openai/v1/chat/completions"

\* the ways a request fails: an HTTP status that is not ok, the abort after
\* 10 s, a failed connection, a body that is not JSON, a body without
\* choices[0].message, a message without content
HttpStatuses == {"400", "401", "403", "429", "500", "504"}

Failures == HttpStatuses \cup {"abort", "network", "json", "format", "content"}

statusText(status) ==
  CASE status = "400" -> "Bad Request"
    [] status = "401" -> "Unauthorized"
    [] status = "403" -> "Forbidden"
    [] status = "429" -> "Too Many Requests"
    [] status = "500" -> "Internal Server Error"
    [] OTHER -> "Gateway Timeout"

\* the error thrown inside the try block
thrownInside(f) ==
  CASE f = "401" -> [name |-> "Error", message |-> "Authentication failed - check your GROQ_API_KEY"]
    [] f = "429" -> [name |-> "Error", message |-> "Rate limit exceeded - please try again later"]
    [] f = "400" -> [name |-> "Error", message |-> "Invalid request - check model name and parameters"]
    [] f \in {"403", "500", "504"} ->
         [name |-> "Error", message |-> "API request failed: " \o f \o " " \o statusText(f)]
    [] f = "abort" -> [name |-> "AbortError", message |-> "The user aborted a request."]
    [] f = "network" ->
         [name |-> "FetchError",
          message |-> "request to " \o apiUrl
                      \o " failed, reason: getaddrinfo ENOTFOUND api.groq.com"]
    [] f = "json" ->
         [name |-> "FetchError",
          message |-> "invalid json response body at " \o apiUrl
                      \o " reason: Unexpected token < in JSON at position 0"]
    [] f = "format" -> [name |-> "Error", message |-> "Invalid API response format"]
    [] OTHER ->
         [name |-> "TypeError",
          message |-> "Cannot read properties of undefined (reading 'trim')"]

\* the catch block without its test for an aborted request
rethrownWithoutTimeout(error) ==
  IF includes(error.message, "429")
    THEN "Rate limit exceeded - please try again later"
  ELSE IF includes(error.message, "401") \/ includes(error.message, "403")
    THEN "Authentication failed - check your GROQ_API_KEY"
  ELSE IF includes(error.message, "fetch")
    THEN "Network error - check your internet connection"
  ELSE "AI service error: " \o error.message

\* the catch block of getAISuggestion: the message of the error it rethrows
rethrown(error) ==
  IF error.name = "AbortError" \/ includes(error.message, "timeout")
    THEN "Request timeout - AI service took too long to respond"
  ELSE IF includes(error.message, "429")
    THEN "Rate limit exceeded - please try again later"
  ELSE IF includes(error.message, "401") \/ includes(error.message, "403")
    THEN "Authentication failed - check your GROQ_API_KEY"
  ELSE IF includes(error.message, "fetch")
    THEN "Network error - check your internet connection"
  ELSE "AI service error: " \o error.message

\* previewErrorMessage showing every error
previewErrorMessageAll(errorMessage) ==
  IF includes(errorMessage, "Authentication") \/ includes(errorMessage, "API key")
    THEN "[AI] Check API key configuration"
  ELSE IF includes(errorMessage, "Rate limit")
    THEN "[AI] Rate limit reached"
  ELSE "[AI] " \o errorMessage

\* the catch block of handleAIPreviewCompletion: the message it shows, if any
previewErrorMessage(errorMessage) ==
  IF includes(errorMessage, "Authentication") \/ includes(errorMessage, "API key")
    THEN "[AI] Check API key configuration"
  ELSE IF includes(errorMessage, "Rate limit")
    THEN "[AI] Rate limit reached"
  ELSE ""

FailureNotice == [f \in Failures |-> previewErrorMessage(rethrown(thrownInside(f)))]

(***************************************************************************)
(* Editor: the pure helpers of the preview (src/src/editor.js:828-945).    *)
(***************************************************************************)
RxQuoteStart == <<Bol(FALSE), One({"\"", "'", BackTick})>>

RxQuoteEnd == <<One({"\"", "'", BackTick}), Eol>>

RxFencedBlock == <<Lit(Fence), AnyStarLazy, Lit(Fence)>>

RxDisplayUnsafe == <<Rep(Printable \cup {"\t", "\n"}, TRUE, 1, 1, FALSE)>>

\* textBeforeCursor.split(/\s+/).pop(): what follows the last white space
lastWordOf(text) ==
  LET spaces == {i \in 1..Len(text) : SubSeq(text, i, i) \in WhiteSpace}
  IN  IF spaces = {} THEN text ELSE SubSeq(text, maxOf(spaces) + 1, Len(text))

cleanAISuggestion(suggestion, currentLine, cursorCol) ==
  IF suggestion = "" THEN ""
  ELSE LET unprefixed(trimmed, lastWord) ==
             IF lastWord # "" /\ startsWith(toLowerCase(trimmed), toLowerCase(lastWord))
               THEN sliceFrom(trimmed, Len(lastWord))
               ELSE trimmed
           firstTwo(unquoted, lines) ==
             IF Len(lines) > 2 THEN joinLines(SubSeq(lines, 1, 2)) ELSE unquoted
           limited(unquoted) ==
             IF ~includes(unquoted, "\n") THEN slice(unquoted, 0, 60)
             ELSE firstTwo(unquoted, splitLines(unquoted))
       IN  trim(replaceAll(RxUnsafe, <<>>,
             limited(replaceFirst(RxQuoteEnd, <<>>, replaceFirst(RxQuoteStart, <<>>,
               unprefixed(trim(suggestion), lastWordOf(slice(currentLine, 0, cursorCol))))))))

sanitizeForDisplay(text) ==
  IF text = "" THEN ""
  ELSE LET a == replaceAll(RxSgr, <<>>, replaceAll(RxCsi, <<>>, text))
           b == replaceAll(RxTag, <<>>, a)
           c == replaceAll(RxInlineCode, <<Cap(1)>>, replaceAll(RxFencedBlock, <<>>, b))
       IN  trim(replaceAll(RxDisplayUnsafe, <<>>, c))

stripAnsiCodes(text) == replaceAll(RxSgr, <<>>, text)

\* insertAIPreviewInLine: the displayed line as its three parts; the ghost
\* part is what chalk.gray.dim wraps, empty when the line is returned as is
insertAIPreviewInLine(line, cursorCol, suggestion) ==
  LET parts(cleanSuggestion, plainLine) ==
        IF suggestion = "" \/ cleanSuggestion = ""
          THEN [before |-> line, ghost |-> "", after |-> ""]
          ELSE [before |-> slice(plainLine, 0, cursorCol),
                ghost |-> cleanSuggestion,
                after |-> sliceFrom(plainLine, cursorCol)]
  IN  parts(sanitizeForDisplay(suggestion), stripAnsiCodes(line))

\* Editor.insertAISuggestion (src/src/editor.js:744-772)
RECURSIVE insertChars(_, _)
insertChars(b, text) ==
  IF Len(text) = 0 THEN b
  ELSE insertChars(insertCharacter(b, SubSeq(text, 1, 1)), SubSeq(text, 2, Len(text)))

RECURSIVE insertLines(_, _, _)
insertLines(b, suggestionLines, i) ==
  IF i > Len(suggestionLines) THEN b
  ELSE insertLines(insertChars(IF i = 1 THEN b ELSE insertNewLine(b), suggestionLines[i]),
                   suggestionLines, i + 1)

insertAISuggestion(b, suggestion) ==
  IF trim(suggestion) = "" THEN b ELSE insertLines(b, splitLines(trim(suggestion)), 1)

(***************************************************************************)
(* The editor as a state machine.  One step is one macrotask of the event  *)
(* loop: a key press, the expiry of the debounce timer, or the arrival of  *)
(* the provider's answer with everything that runs up to the next await of *)
(* the network.                                                            *)
(***************************************************************************)
VARIABLES
  buffer,                  \* TextBuffer: content, cursor row and col, modified
  currentMode,             \* ModeManager.currentMode
  commandBuffer,           \* ModeManager.commandBuffer
  enabled,                 \* AIService.enabled
  apiKey,                  \* AIService.apiKey
  cache,                   \* AIService.cache
  aiCompletionInProgress,  \* Editor.aiCompletionInProgress
  aiPreviewSuggestion,     \* Editor.aiPreviewSuggestion, "" for null
  aiPreviewTimeout,        \* Editor.aiPreviewTimeout: "null", "pending", "spent"
  timers,                  \* number of debounce timers the runtime holds
  inflight,                \* provider requests awaiting their answer
  screenGhost,             \* ghost text in the content last set by render()
  message,                 \* what the last step passed to showMessage, or ""
  running,                 \* the process is alive
  edits,                   \* editing keys pressed so far
  calls,                   \* provider requests made so far
  last,                    \* what the last step was
  model,                   \* AIService.model
  sanitizing,              \* a call of sanitizeSuggestion: its argument and local
  codeContext,             \* what getCodeContext returned last, NoContext before
  screen,                  \* what render() handed on last, NoScreen before
  settings                 \* Editor.showLineNumbers, relativeLineNumbers, syntaxHighlighting

vars ==
  <<buffer, currentMode, commandBuffer, enabled, apiKey, cache, aiCompletionInProgress,
    aiPreviewSuggestion, aiPreviewTimeout, timers, inflight, screenGhost, message,
    running, edits, calls, last, model, sanitizing, codeContext, screen,
    settings>>

\* the state beside the editing session
aside == <<model, sanitizing, codeContext, screen, settings>>

\* editing keys pressed in one run
MaxEdits == 3

\* provider requests made in one run
MaxCalls == 2

\* characters the command line holds, the colon included
MaxCommandLen == 21

\* the file opened, and the GROQ_API_KEY of the environment
InitialContent == <<"let a = 1", "">>

ApiKeys == {"", "gsk"}

\* the keys pressed in each mode; a key of one character has that character
NormalKeys == {"i", "up", "down"}

InsertKeys == {"escape", "return", "backspace", "tab", "up", "down", "i"}

\* the commands typed in command mode: the ones that quit, save, set and
\* show settings, show and toggle the service, and one that does not exist
TypedCommands ==
  {"q", "q!", "wq", "w", "set", "set number", "set nonumber", "set nu", "set nonu",
   "set relativenumber", "set norelativenumber", "set rnu", "set nornu", "set syntax",
   "set nosyntax", "ai", "toggleAI", "x"}

CommandKeys ==
  {"escape", "return", "backspace"}
    \cup UNION {{SubSeq(c, i, i) : i \in 1..Len(c)} : c \in TypedCommands}

\* message contents the provider answers with
RawResponses == {"i + 1;\n}", "<b>", "\""}

\* content.trim() (command-parser.js:1428) and sanitizeSuggestion, for each
\* answer: cleaned once the markup is removed (lines 1501-1562), ...
Unmarked == [raw \in RawResponses |-> stripTags(stripSpans(stripWrapping(trim(raw))))]

\* ... once the text is normalised (lines 1565-1602), ...
Normalized ==
  [raw \in RawResponses |->
     cleanWhitespace(normalizeChars(stripAnsi(stripMarkdown(decodeEntities(Unmarked[raw])))))]

\* ... and what sanitizeSuggestion returns (lines 1496 and 1605-1634)
Sanitized ==
  [raw \in RawResponses |->
     IF trim(raw) = "" THEN ""
     ELSE firstGroup(endPatterns, 1, firstGroup(codePatterns, 1, Normalized[raw]))]

isAvailable == enabled /\ Len(apiKey) > 0

\* the record of a step: the operation, the key pressed, whether its handler
\* threw, whether it called the provider, how it ended, the content answered,
\* whether it is a qualifying edit that directly follows a failed request,
\* and how many entries a clearCache() of the step removed
Did(op, key) ==
  [op |-> op, key |-> key, threw |-> FALSE, call |-> FALSE, outcome |-> "", raw |-> "",
   afterFailure |-> FALSE, cleared |-> 0]

\* no call of sanitizeSuggestion under way
NotSanitizing == [input |-> "", suggestion |-> "", cleaned |-> "", block |-> 0, call |-> 0]

\* getCodeContext not called yet
NoContext == [called |-> FALSE, text |-> ""]

\* render() not run yet
NoScreen ==
  [language |-> "", processedContent |-> <<>>, highlighterInput |-> <<>>, finalLines |-> <<>>]

\* editor.js:38-40
InitialSettings ==
  [showLineNumbers |-> TRUE, relativeLineNumbers |-> TRUE, syntaxHighlighting |-> TRUE]

\* the fields the constructors of Editor and its parts set
Constructed ==
  /\ buffer = [content |-> InitialContent, row |-> 0, col |-> 0, modified |-> FALSE]
  /\ currentMode = "normal"
  /\ commandBuffer = ""
  /\ enabled = TRUE
  /\ apiKey \in ApiKeys
  /\ cache = <<>>
  /\ aiCompletionInProgress = FALSE
  /\ aiPreviewSuggestion = ""
  /\ aiPreviewTimeout = "null"
  /\ timers = 0
  /\ inflight = <<>>
  /\ screenGhost = ""
  /\ message = ""
  /\ running = TRUE
  /\ edits = 0
  /\ calls = 0
  /\ last = Did("init", "")
  /\ model = "llama3-8b-8192"
  /\ settings = InitialSettings

Init ==
  /\ Constructed
  /\ sanitizing = NotSanitizing
  /\ codeContext = NoContext
  /\ screen = NoScreen

\* render(): the ghost text of the cursor line (editor.js:310-315, 346-351)
renderGhost(b, mode, preview) ==
  IF preview # "" /\ mode = "insert"
    THEN insertAIPreviewInLine(b.content[b.row + 1], b.col, preview).ghost
    ELSE ""

\* clearTimeout(this.aiPreviewTimeout)
clearedTimeout == IF aiPreviewTimeout = "pending" THEN "spent" ELSE aiPreviewTimeout

clearedTimers == IF aiPreviewTimeout = "pending" THEN timers - 1 ELSE timers

\* triggerAIPreviewDebounced, from handle h with t timers held
triggerAIPreviewDebounced(h, t) ==
  IF ~isAvailable \/ aiCompletionInProgress
    THEN [timeout |-> h, timers |-> t]
    ELSE [timeout |-> "pending", timers |-> (IF h = "pending" THEN t - 1 ELSE t) + 1]

\* clearAIPreview with a preview stored: the field is set to null and
\* this.statusLine.clearMessage(), which StatusLine does not define, throws a
\* TypeError.  Nothing catches it: the rest of the handler and the render()
\* of the listener are skipped, and the rejected promise of the async
\* listener ends the process or not, as the runtime is set up.
Thrown(key) ==
  /\ aiPreviewSuggestion' = ""
  /\ running' \in BOOLEAN
  /\ message' = ""
  /\ last' = [Did("key", key) EXCEPT !.threw = TRUE]
  /\ UNCHANGED <<buffer, currentMode, commandBuffer, enabled, apiKey, cache,
                 aiCompletionInProgress, aiPreviewTimeout, timers, inflight, screenGhost,
                 edits, calls>>

\* a key handler that passed clearAIPreview without a preview stored, then
\* left buffer b, the mode and the command buffer, and the render() of the
\* listener
Handled(key, b, mode, cb, en, trigger, msg) ==
  LET t == IF trigger THEN triggerAIPreviewDebounced(clearedTimeout, clearedTimers)
                      ELSE [timeout |-> clearedTimeout, timers |-> clearedTimers]
  IN  /\ buffer' = validateCursor(b)
      /\ currentMode' = mode
      /\ commandBuffer' = cb
      /\ enabled' = en
      /\ aiPreviewTimeout' = t.timeout
      /\ timers' = t.timers
      /\ screenGhost' = ""
      /\ message' = msg
      /\ last' = [Did("key", key) EXCEPT
                    !.afterFailure = trigger /\ last.op = "response" /\ last.outcome \in Failures]
      /\ UNCHANGED <<apiKey, cache, aiCompletionInProgress, aiPreviewSuggestion, inflight,
                     running, calls>>

moved(b, key) ==
  CASE key = "left" -> moveCursorLeft(b)
    [] key = "right" -> moveCursorRight(b)
    [] key = "up" -> moveCursorUp(b)
    [] OTHER -> moveCursorDown(b)

handleNormalModeKeys(key) ==
  /\ running
  /\ currentMode = "normal"
  /\ UNCHANGED edits
  /\ IF aiPreviewSuggestion # "" THEN Thrown(key)
     ELSE IF key = ":" THEN Handled(key, buffer, "command", ":", enabled, FALSE, "")
     ELSE IF key = "i" THEN Handled(key, buffer, "insert", commandBuffer, enabled, FALSE, "")
     ELSE IF key \in {"left", "right", "up", "down"}
       THEN Handled(key, moved(buffer, key), "normal", commandBuffer, enabled, FALSE, "")
     ELSE Handled(key, buffer, "normal", commandBuffer, enabled, FALSE, "")

\* previewAttempt without the check that the context is long enough
previewAttemptAnyContext(viaTab) ==
  LET decided(b, currentLine, charBeforeCursor, context, cacheKey, request) ==
        IF \/ b.col = 0 /\ trim(currentLine) = ""
           \/ charBeforeCursor \in {";", "}", "]", ")"}
          THEN [kind |-> "skip", clean |-> "", request |-> request]
        ELSE IF cacheHas(cache, cacheKey)
          THEN [kind |-> "hit",
                clean |-> cleanAISuggestion(cacheGet(cache, cacheKey), currentLine, b.col),
                request |-> request]
        ELSE [kind |-> "call", clean |-> "", request |-> request]
      keyed(b, currentLine, context, cacheKey) ==
        decided(b, currentLine,
                IF b.col > 0 THEN SubSeq(currentLine, b.col, b.col) ELSE "",
                context, cacheKey,
                [key |-> cacheKey, currentLine |-> currentLine, row |-> b.row,
                 col |-> b.col, tab |-> viaTab])
      inContext(b, context) == keyed(b, b.content[b.row + 1], context, getCacheKey(context))
      at(b) == inContext(b, getCodeContext(b.content, b.row, b.col))
  IN  at(validateCursor(buffer))

\* handleAIPreviewCompletion past its guard, up to the await of the provider
\* (editor.js:608-632 and command-parser.js:1361-1369): the request is not
\* made ("skip"), is answered by the cache ("hit"), or goes out ("call")
previewAttempt(viaTab) ==
  LET decided(b, currentLine, charBeforeCursor, context, cacheKey, request) ==
        IF \/ b.col = 0 /\ trim(currentLine) = ""
           \/ charBeforeCursor \in {";", "}", "]", ")"}
           \/ Len(trim(context)) < 10
          THEN [kind |-> "skip", clean |-> "", request |-> request]
        ELSE IF cacheHas(cache, cacheKey)
          THEN [kind |-> "hit",
                clean |-> cleanAISuggestion(cacheGet(cache, cacheKey), currentLine, b.col),
                request |-> request]
        ELSE [kind |-> "call", clean |-> "", request |-> request]
      keyed(b, currentLine, context, cacheKey) ==
        decided(b, currentLine,
                IF b.col > 0 THEN SubSeq(currentLine, b.col, b.col) ELSE "",
                context, cacheKey,
                [key |-> cacheKey, currentLine |-> currentLine, row |-> b.row,
                 col |-> b.col, tab |-> viaTab])
      inContext(b, context) == keyed(b, b.content[b.row + 1], context, getCacheKey(context))
      at(b) == inContext(b, getCodeContext(b.content, b.row, b.col))
  IN  at(validateCursor(buffer))

\* handleAIPreviewCompletion when its guard lets it in, called by the Tab
\* key (the listener renders once it returns) or by the debounce timer
Attempt(viaTab, op, key) ==
  \E a \in {previewAttempt(viaTab)} :
    LET stored == a.kind = "hit" /\ a.clean # ""
    IN
      /\ a.kind = "call" => calls < MaxCalls
      /\ calls' = IF a.kind = "call" THEN calls + 1 ELSE calls
      /\ buffer' = validateCursor(buffer)
      /\ aiCompletionInProgress' = (a.kind = "call")
      /\ inflight' = IF a.kind = "call" THEN Append(inflight, a.request) ELSE inflight
      /\ aiPreviewSuggestion' = IF stored THEN a.clean ELSE aiPreviewSuggestion
      /\ screenGhost' =
           IF stored \/ (viaTab /\ a.kind # "call")
             THEN renderGhost(buffer', currentMode, aiPreviewSuggestion')
             ELSE screenGhost
      /\ message' = ""
      /\ last' = [Did(op, key) EXCEPT !.call = (a.kind = "call"), !.outcome = a.kind]

\* acceptAIPreview: the suggestion is inserted, the message shown, and
\* clearAIPreview throws after it set the field to null
acceptAIPreview ==
  /\ buffer' = insertAISuggestion(buffer, aiPreviewSuggestion)
  /\ message' = "[AI] Suggestion applied"
  /\ aiPreviewSuggestion' = ""
  /\ running' \in BOOLEAN
  /\ last' = [Did("key", "tab") EXCEPT !.threw = TRUE, !.outcome = "accept"]
  /\ edits < MaxEdits
  /\ edits' = edits + 1
  /\ UNCHANGED <<currentMode, commandBuffer, enabled, apiKey, cache, aiCompletionInProgress,
                 aiPreviewTimeout, timers, inflight, screenGhost, calls>>

\* the Tab key without a preview stored, asking for a completion although a
\* request is in flight
tabWithoutPreviewWhileInFlight ==
  IF isAvailable
    THEN /\ Attempt(TRUE, "key", "tab")
         /\ UNCHANGED <<currentMode, commandBuffer, enabled, apiKey, cache, aiPreviewTimeout,
                        timers, running, edits>>
    ELSE /\ edits < MaxEdits
         /\ edits' = edits + 1
         /\ buffer' = validateCursor(insertCharacter(buffer, "\t"))
         /\ screenGhost' = ""
         /\ message' = ""
         /\ last' = [Did("key", "tab") EXCEPT !.outcome = "char"]
         /\ UNCHANGED <<currentMode, commandBuffer, enabled, apiKey, cache,
                        aiCompletionInProgress, aiPreviewSuggestion, aiPreviewTimeout, timers,
                        inflight, running, calls>>

\* the Tab key without a preview stored
tabWithoutPreview ==
  IF isAvailable /\ ~aiCompletionInProgress
    THEN /\ Attempt(TRUE, "key", "tab")
         /\ UNCHANGED <<currentMode, commandBuffer, enabled, apiKey, cache, aiPreviewTimeout,
                        timers, running, edits>>
    ELSE /\ edits < MaxEdits
         /\ edits' = edits + 1
         /\ buffer' = validateCursor(insertCharacter(buffer, "\t"))
         /\ screenGhost' = ""
         /\ message' = ""
         /\ last' = [Did("key", "tab") EXCEPT !.outcome = "char"]
         /\ UNCHANGED <<currentMode, commandBuffer, enabled, apiKey, cache,
                        aiCompletionInProgress, aiPreviewSuggestion, aiPreviewTimeout, timers,
                        inflight, running, calls>>

handleInsertModeKeys(key) ==
  /\ running
  /\ currentMode = "insert"
  /\ IF key = "tab"
       THEN IF aiPreviewSuggestion # "" THEN acceptAIPreview ELSE tabWithoutPreview
     ELSE IF aiPreviewSuggestion # "" THEN Thrown(key) /\ UNCHANGED edits
     ELSE IF key = "escape"
       THEN Handled(key, buffer, "normal", "", enabled, FALSE, "") /\ UNCHANGED edits
     ELSE IF key \in {"left", "right", "up", "down"}
       THEN /\ Handled(key, moved(buffer, key), "insert", commandBuffer, enabled, FALSE, "")
            /\ UNCHANGED edits
     ELSE /\ edits < MaxEdits
          /\ edits' = edits + 1
          /\ IF key = "return"
               THEN Handled(key, insertNewLine(buffer), "insert", commandBuffer, enabled,
                            FALSE, "")
             ELSE IF key = "backspace"
               THEN Handled(key, deleteCharacter(buffer), "insert", commandBuffer, enabled,
                            TRUE, "")
             ELSE Handled(key, insertCharacter(buffer, key), "insert", commandBuffer, enabled,
                          TRUE, "")

\* CommandParser.parseCommand for the commands the keys of CommandKeys can
\* spell
commandBase(commandStr) ==
  IF includes(trim(commandStr), " ")
    THEN slice(trim(commandStr), 0, indexOf(trim(commandStr), " "))
    ELSE trim(commandStr)

\* showAIStatus (command-parser.js:256-279), the message it composes after
\* it toggled; the warning sign of the source is left out of the text
aiStatusMessage(en) ==
  IF ~en THEN "[AI] Completion disabled"
  ELSE IF Len(apiKey) = 0 THEN "[AI] Completion enabled (API key missing or invalid)"
  ELSE "[AI] Completion enabled | Model: " \o model

\* the keys of this.commands (command-parser.js:11-29)
commands ==
  {"w", "q", "wq", "q!", "set", "h", "help", "themes", "colorscheme", "cs", "toggleAI", "ai",
   "aimodel", "generate", "gen", "extend", "implement"}

onOff(flag) == IF flag THEN "on" ELSE "off"

\* showSettings (command-parser.js:146-156); the theme line is left out
settingsMessage(st) ==
  "Line numbers: " \o onOff(st.showLineNumbers)
    \o "\nRelative numbers: " \o onOff(st.relativeLineNumbers)
    \o "\nSyntax highlighting: " \o onOff(st.syntaxHighlighting)

\* what a command does: the value it returns, the message it shows last,
\* and the fields it leaves
Effect(result, msg, en, st, modified, exits) ==
  [result |-> result, message |-> msg, enabled |-> en, settings |-> st,
   modified |-> modified, exits |-> exits]

enabledText(flag) == IF flag THEN "enabled" ELSE "disabled"

\* handleSetCommand (command-parser.js:61-92)
handleSetCommand(commandStr) ==
  LET named(isDisable, setting) ==
        CASE setting \in {"relativenumber", "rnu"} ->
               Effect(TRUE, "Relative line numbers " \o enabledText(~isDisable), enabled,
                      [settings EXCEPT !.relativeLineNumbers = ~isDisable],
                      buffer.modified, FALSE)
          [] setting \in {"number", "nu"} ->
               Effect(TRUE, "Line numbers " \o enabledText(~isDisable), enabled,
                      [settings EXCEPT !.showLineNumbers = ~isDisable],
                      buffer.modified, FALSE)
          [] setting = "syntax" ->
               Effect(TRUE, "Syntax highlighting " \o enabledText(~isDisable), enabled,
                      [settings EXCEPT !.syntaxHighlighting = ~isDisable],
                      buffer.modified, FALSE)
          [] OTHER ->
               Effect(FALSE, "Unknown setting: " \o setting, enabled, settings,
                      buffer.modified, FALSE)
      second(word) ==
        IF startsWith(word, "no") THEN named(TRUE, sliceFrom(word, 2)) ELSE named(FALSE, word)
      parts == splitOn(commandStr, " ")
  IN  IF Len(parts) < 2
        THEN Effect(FALSE, "", enabled, settings, buffer.modified, FALSE)
        ELSE second(parts[2])

\* the command of the table that commandBase names, run on commandStr;
\* saved is what TextBuffer.saveFile returns (text-buffer.js:51-74)
runCommand(base, commandStr, saved) ==
  CASE base = "w" ->
         IF saved THEN Effect(TRUE, "written", enabled, settings, FALSE, FALSE)
         ELSE Effect(FALSE, "Error writing file", enabled, settings, buffer.modified, FALSE)
    [] base = "q" ->
         IF buffer.modified
           THEN Effect(FALSE, "No write since last change (add ! to override)", enabled,
                       settings, buffer.modified, FALSE)
           ELSE Effect(TRUE, "", enabled, settings, buffer.modified, TRUE)
    [] base = "wq" ->
         IF saved THEN Effect(TRUE, "written", enabled, settings, FALSE, TRUE)
         ELSE Effect(FALSE, "Error writing file", enabled, settings, buffer.modified, FALSE)
    [] base = "q!" -> Effect(TRUE, "", enabled, settings, buffer.modified, TRUE)
    [] base = "set" ->
         Effect(TRUE, settingsMessage(settings), enabled, settings, buffer.modified, FALSE)
    [] base = "toggleAI" ->
         Effect(TRUE, "[AI] Autocompletion " \o enabledText(~enabled), ~enabled, settings,
                buffer.modified, FALSE)
    [] OTHER ->
         Effect(TRUE, aiStatusMessage(~enabled), ~enabled, settings, buffer.modified, FALSE)

\* parseCommand looking for a set command before it looks into the table
parseCommandSetFirst(command, saved) ==
  LET looked(commandStr, base) ==
        IF startsWith(commandStr, "set ") \/ startsWith(commandStr, "set no")
          THEN handleSetCommand(commandStr)
        ELSE IF base \in commands THEN runCommand(base, commandStr, saved)
        ELSE Effect(FALSE, "", enabled, settings, buffer.modified, FALSE)
      trimmed(commandStr) == looked(commandStr, splitOn(commandStr, " ")[1])
  IN  trimmed(trim(command))

\* parseCommand (command-parser.js:37-54)
parseCommand(command, saved) ==
  LET looked(commandStr, base) ==
        IF base \in commands THEN runCommand(base, commandStr, saved)
        ELSE IF startsWith(commandStr, "set ") \/ startsWith(commandStr, "set no")
          THEN handleSetCommand(commandStr)
        ELSE Effect(FALSE, "", enabled, settings, buffer.modified, FALSE)
      trimmed(commandStr) == looked(commandStr, splitOn(commandStr, " ")[1])
  IN  trimmed(trim(command))

\* the command buffer is the start of a typed command
Typing(cb) == \E c \in TypedCommands : startsWith(":" \o c, cb)

\* the return key of command mode (editor.js:270-281): executeCommand, then
\* the command; quit() ends the process before the listener renders
ExecuteCommand(saved) ==
  \E command \in {sliceFrom(commandBuffer, 1)} :
    \E e \in {parseCommand(command, saved)} :
      /\ commandBase(command) \in commands =>
           commandBase(command) \in {"w", "q", "wq", "q!", "set", "toggleAI", "ai"}
      /\ currentMode' = "normal"
      /\ commandBuffer' = ""
      /\ buffer' = [validateCursor(buffer) EXCEPT !.modified = e.modified]
      /\ enabled' = e.enabled
      /\ settings' = e.settings
      /\ running' = ~e.exits
      /\ aiPreviewTimeout' = clearedTimeout
      /\ timers' = clearedTimers
      /\ screenGhost' = ""
      /\ message' = IF e.result THEN e.message ELSE "Unknown command: " \o command
      /\ last' = [Did("command", command) EXCEPT
                    !.outcome = IF e.exits THEN "exit" ELSE IF e.result THEN "true" ELSE "false",
                    !.raw = e.message]
      /\ UNCHANGED <<apiKey, cache, aiCompletionInProgress, aiPreviewSuggestion, inflight,
                     calls, model, sanitizing, codeContext, screen>>

\* handleCommandModeKeys with escape going back to insert mode
handleCommandModeKeysEscapeToInsert(key) ==
  /\ running
  /\ currentMode = "command"
  /\ UNCHANGED edits
  /\ IF aiPreviewSuggestion # "" THEN Thrown(key) /\ UNCHANGED aside
     ELSE IF key = "escape"
       THEN Handled(key, buffer, "insert", "", enabled, FALSE, "") /\ UNCHANGED aside
     ELSE IF key = "return" THEN \E saved \in BOOLEAN : ExecuteCommand(saved)
     ELSE IF key = "backspace"
       THEN /\ Handled(key, buffer, "command",
                       IF Len(commandBuffer) > 1
                         THEN SubSeq(commandBuffer, 1, Len(commandBuffer) - 1)
                         ELSE commandBuffer,
                       enabled, FALSE, "")
            /\ UNCHANGED aside
     ELSE /\ Len(commandBuffer) < MaxCommandLen
          /\ Typing(commandBuffer \o key)
          /\ Handled(key, buffer, "command", commandBuffer \o key, enabled, FALSE, "")
          /\ UNCHANGED aside

\* handleCommandModeKeys (editor.js:262-290)
handleCommandModeKeys(key) ==
  /\ running
  /\ currentMode = "command"
  /\ UNCHANGED edits
  /\ IF aiPreviewSuggestion # "" THEN Thrown(key) /\ UNCHANGED aside
     ELSE IF key = "escape"
       THEN Handled(key, buffer, "normal", "", enabled, FALSE, "") /\ UNCHANGED aside
     ELSE IF key = "return" THEN \E saved \in BOOLEAN : ExecuteCommand(saved)
     ELSE IF key = "backspace"
       THEN /\ Handled(key, buffer, "command",
                       IF Len(commandBuffer) > 1
                         THEN SubSeq(commandBuffer, 1, Len(commandBuffer) - 1)
                         ELSE commandBuffer,
                       enabled, FALSE, "")
            /\ UNCHANGED aside
     ELSE /\ Len(commandBuffer) < MaxCommandLen
          /\ Typing(commandBuffer \o key)
          /\ Handled(key, buffer, "command", commandBuffer \o key, enabled, FALSE, "")
          /\ UNCHANGED aside

\* TimerExpiry with the guard on aiCompletionInProgress of
\* handleAIPreviewCompletion left out
TimerExpiryUnguarded ==
  /\ running
  /\ timers > 0
  /\ timers' = timers - 1
  /\ aiPreviewTimeout' =
       IF timers = 1 /\ aiPreviewTimeout = "pending" THEN "spent" ELSE aiPreviewTimeout
  /\ IF currentMode = "insert" /\ isAvailable
       THEN Attempt(FALSE, "expiry", "")
       ELSE /\ last' = [Did("expiry", "") EXCEPT !.outcome = "dropped"]
            /\ message' = ""
            /\ UNCHANGED <<buffer, aiCompletionInProgress, aiPreviewSuggestion, inflight,
                           screenGhost, calls>>
  /\ UNCHANGED <<currentMode, commandBuffer, enabled, apiKey, cache, running, edits>>

\* the callback of setTimeout in triggerAIPreviewDebounced (editor.js:902-906)
TimerExpiry ==
  /\ running
  /\ timers > 0
  /\ timers' = timers - 1
  /\ aiPreviewTimeout' =
       IF timers = 1 /\ aiPreviewTimeout = "pending" THEN "spent" ELSE aiPreviewTimeout
  /\ IF currentMode = "insert" /\ ~aiCompletionInProgress /\ isAvailable
       THEN Attempt(FALSE, "expiry", "")
       ELSE /\ last' = [Did("expiry", "") EXCEPT !.outcome = "dropped"]
            /\ message' = ""
            /\ UNCHANGED <<buffer, aiCompletionInProgress, aiPreviewSuggestion, inflight,
                           screenGhost, calls>>
  /\ UNCHANGED <<currentMode, commandBuffer, enabled, apiKey, cache, running, edits>>

without(q, i) == SubSeq(q, 1, i - 1) \o SubSeq(q, i + 1, Len(q))

\* RespondOk writing the suggestion into the buffer, as the legacy
\* handleAICompletion does
RespondOkInserting(i, raw) ==
  \E req \in {inflight[i]}, suggestion \in {Sanitized[raw]} :
    \E cleanSuggestion \in {cleanAISuggestion(suggestion, req.currentLine, req.col)} :
      /\ running
      /\ cache' = IF suggestion # "" THEN cacheResult(cache, req.key, suggestion) ELSE cache
      /\ aiPreviewSuggestion' =
           IF cleanSuggestion # "" THEN cleanSuggestion ELSE aiPreviewSuggestion
      /\ aiCompletionInProgress' = FALSE
      /\ inflight' = without(inflight, i)
      /\ buffer' = validateCursor(insertAISuggestion(buffer, cleanSuggestion))
      /\ screenGhost' =
           IF cleanSuggestion # "" \/ req.tab
             THEN renderGhost(buffer', currentMode, aiPreviewSuggestion')
             ELSE screenGhost
      /\ message' = ""
      /\ last' = [Did("response", "") EXCEPT !.outcome = "ok", !.raw = raw]
      /\ UNCHANGED <<currentMode, commandBuffer, enabled, apiKey, aiPreviewTimeout, timers,
                     running, edits, calls>>

\* RespondOk caching the sanitized suggestion whether or not it is empty
RespondOkCachingAll(i, raw) ==
  \E req \in {inflight[i]}, suggestion \in {Sanitized[raw]} :
    \E cleanSuggestion \in {cleanAISuggestion(suggestion, req.currentLine, req.col)} :
      /\ running
      /\ cache' = cacheResult(cache, req.key, suggestion)
      /\ aiPreviewSuggestion' =
           IF cleanSuggestion # "" THEN cleanSuggestion ELSE aiPreviewSuggestion
      /\ aiCompletionInProgress' = FALSE
      /\ inflight' = without(inflight, i)
      /\ buffer' = IF cleanSuggestion # "" \/ req.tab THEN validateCursor(buffer) ELSE buffer
      /\ screenGhost' =
           IF cleanSuggestion # "" \/ req.tab
             THEN renderGhost(buffer', currentMode, aiPreviewSuggestion')
             ELSE screenGhost
      /\ message' = ""
      /\ last' = [Did("response", "") EXCEPT !.outcome = "ok", !.raw = raw]
      /\ UNCHANGED <<currentMode, commandBuffer, enabled, apiKey, aiPreviewTimeout, timers,
                     running, edits, calls>>

\* the provider answers request i with a message of content raw: the rest
\* of getAISuggestion, of handleAIPreviewCompletion and, for a request made
\* by Tab, of the key listener
RespondOk(i, raw) ==
  \E req \in {inflight[i]}, suggestion \in {Sanitized[raw]} :
    \E cleanSuggestion \in {cleanAISuggestion(suggestion, req.currentLine, req.col)} :
      /\ running
      /\ cache' = IF suggestion # "" THEN cacheResult(cache, req.key, suggestion) ELSE cache
      /\ aiPreviewSuggestion' =
           IF cleanSuggestion # "" THEN cleanSuggestion ELSE aiPreviewSuggestion
      /\ aiCompletionInProgress' = FALSE
      /\ inflight' = without(inflight, i)
      /\ buffer' = IF cleanSuggestion # "" \/ req.tab THEN validateCursor(buffer) ELSE buffer
      /\ screenGhost' =
           IF cleanSuggestion # "" \/ req.tab
             THEN renderGhost(buffer', currentMode, aiPreviewSuggestion')
             ELSE screenGhost
      /\ message' = ""
      /\ last' = [Did("response", "") EXCEPT !.outcome = "ok", !.raw = raw]
      /\ UNCHANGED <<currentMode, commandBuffer, enabled, apiKey, aiPreviewTimeout, timers,
                     running, edits, calls>>

\* RespondFailure without the finally block that resets the flag
RespondFailureStuck(i, f) ==
  LET req == inflight[i]
  IN  /\ running
      /\ message' = FailureNotice[f]
      /\ aiCompletionInProgress' = aiCompletionInProgress
      /\ inflight' = without(inflight, i)
      /\ buffer' = IF req.tab THEN validateCursor(buffer) ELSE buffer
      /\ screenGhost' =
           IF req.tab THEN renderGhost(buffer', currentMode, aiPreviewSuggestion)
                      ELSE screenGhost
      /\ last' = [Did("response", "") EXCEPT !.outcome = f]
      /\ UNCHANGED <<currentMode, commandBuffer, enabled, apiKey, cache, aiPreviewSuggestion,
                     aiPreviewTimeout, timers, running, edits, calls>>

\* request i fails in way f
RespondFailure(i, f) ==
  LET req == inflight[i]
  IN  /\ running
      /\ message' = FailureNotice[f]
      /\ aiCompletionInProgress' = FALSE
      /\ inflight' = without(inflight, i)
      /\ buffer' = IF req.tab THEN validateCursor(buffer) ELSE buffer
      /\ screenGhost' =
           IF req.tab THEN renderGhost(buffer', currentMode, aiPreviewSuggestion)
                      ELSE screenGhost
      /\ last' = [Did("response", "") EXCEPT !.outcome = f]
      /\ UNCHANGED <<currentMode, commandBuffer, enabled, apiKey, cache, aiPreviewSuggestion,
                     aiPreviewTimeout, timers, running, edits, calls>>

Next ==
  \/ (\E key \in NormalKeys : handleNormalModeKeys(key)) /\ UNCHANGED aside
  \/ (\E key \in InsertKeys : handleInsertModeKeys(key)) /\ UNCHANGED aside
  \/ TimerExpiry /\ UNCHANGED aside
  \/ (\E i \in 1..Len(inflight), raw \in RawResponses : RespondOk(i, raw)) /\ UNCHANGED aside
  \/ (\E i \in 1..Len(inflight), f \in Failures : RespondFailure(i, f)) /\ UNCHANGED aside

Spec == Init /\ [][Next]_vars

(***************************************************************************)
(* The suggestion cache by itself: the provider answers one context after  *)
(* another, each under a key not seen before, and contexts whose key the   *)
(* cache holds are asked for again.                                        *)
(***************************************************************************)
\* results stored in one run of the cache
MaxStores == 52

\* the sanitized suggestion every answer gives
StoredSuggestion == Sanitized["i + 1;\n}"]

\* getAISuggestion on a miss, once the provider answered with a suggestion
\* that sanitizes to s: cacheResult(cacheKey, cleanedSuggestion)
StoreResult(s) ==
  LET cacheKey == toStr(calls + 1)
  IN  /\ calls < MaxStores
      /\ calls' = calls + 1
      /\ cache' = cacheResult(cache, cacheKey, s)
      /\ last' = [Did("store", cacheKey) EXCEPT !.raw = s]
      /\ UNCHANGED <<buffer, currentMode, commandBuffer, enabled, apiKey,
                     aiCompletionInProgress, aiPreviewSuggestion, aiPreviewTimeout, timers,
                     inflight, screenGhost, message, running, edits>>

\* getAISuggestion on a context whose key the cache holds: cache.get(key)
ReadCached(i) ==
  /\ last' = [Did("hit", cache[i].key) EXCEPT !.raw = cacheGet(cache, cache[i].key)]
  /\ UNCHANGED <<buffer, currentMode, commandBuffer, enabled, apiKey, cache,
                 aiCompletionInProgress, aiPreviewSuggestion, aiPreviewTimeout, timers,
                 inflight, screenGhost, message, running, edits, calls>>

NextCache ==
  \/ StoreResult(StoredSuggestion) /\ UNCHANGED aside
  \/ (\E i \in {1, Len(cache)} : cache # <<>> /\ ReadCached(i)) /\ UNCHANGED aside

SpecCache == Init /\ [][NextCache]_vars

(***************************************************************************)
(* AIService.setModel (src/src/command-parser.js:1670-1684, the same code  *)
(* in src/src/ai-service.js:221-235), called by the :ai model command      *)
(* (command-parser.js:297, 678), between stores into the cache.            *)
(***************************************************************************)
supportedModels == <<"mixtral-8x7b-32768", "llama3-8b-8192", "llama3-70b-8192", "gemma-7b-it">>

\* AIService.getSupportedModels (command-parser.js:1690-1699)
getSupportedModels ==
  <<"llama3-8b-8192", "llama3-70b-8192", "llama-3.1-8b-instant", "llama-3.1-70b-versatile",
    "gemma-7b-it", "gemma2-9b-it">>

\* names a user may pass: the ones setModel accepts, the ones
\* getSupportedModels() lists, one that nothing lists, and the empty name
ModelNames ==
  {supportedModels[i] : i \in 1..Len(supportedModels)}
    \cup {getSupportedModels[i] : i \in 1..Len(getSupportedModels)}
    \cup {"gpt-4", ""}

clearCache(c) == <<>>

\* setModel that keeps the cache
setModelKeepingCache(m, c, modelName) ==
  IF \E i \in 1..Len(supportedModels) : supportedModels[i] = modelName
    THEN [model |-> modelName, cache |-> c, returned |-> TRUE]
    ELSE [model |-> m, cache |-> c, returned |-> FALSE]

\* the model, the cache and the value returned
setModel(m, c, modelName) ==
  IF \E i \in 1..Len(supportedModels) : supportedModels[i] = modelName
    THEN [model |-> modelName, cache |-> clearCache(c), returned |-> TRUE]
    ELSE [model |-> m, cache |-> c, returned |-> FALSE]

SetModel(modelName) ==
  \E r \in {setModel(model, cache, modelName)} :
    /\ model' = r.model
    /\ cache' = r.cache
    /\ last' = [Did("setModel", modelName) EXCEPT
                  !.outcome = IF r.returned THEN "true" ELSE "false",
                  !.cleared = Len(cache) - Len(r.cache)]
    /\ UNCHANGED <<settings, buffer, currentMode, commandBuffer, enabled, apiKey,
                   aiCompletionInProgress, aiPreviewSuggestion, aiPreviewTimeout, timers,
                   inflight, screenGhost, message, running, edits, calls, sanitizing,
                   codeContext, screen>>

\* cacheResult under the key stored last, as test-integration-full.js calls
\* it: straight on the service, with no look into the cache before
StoreAgain ==
  /\ cache # <<>>
  /\ cache' = cacheResult(cache, cache[Len(cache)].key, StoredSuggestion)
  /\ last' = [Did("store", cache[Len(cache)].key) EXCEPT !.raw = StoredSuggestion]
  /\ UNCHANGED <<buffer, currentMode, commandBuffer, enabled, apiKey,
                 aiCompletionInProgress, aiPreviewSuggestion, aiPreviewTimeout, timers,
                 inflight, screenGhost, message, running, edits, calls>>

\* AIService.clearCache (command-parser.js:1654-1656)
ClearCache ==
  /\ cache' = clearCache(cache)
  /\ last' = [Did("clearCache", "") EXCEPT !.cleared = Len(cache)]
  /\ UNCHANGED <<buffer, currentMode, commandBuffer, enabled, apiKey,
                 aiCompletionInProgress, aiPreviewSuggestion, aiPreviewTimeout, timers,
                 inflight, screenGhost, message, running, edits, calls>>

NextModel ==
  \/ StoreResult(StoredSuggestion) /\ UNCHANGED aside
  \/ \E modelName \in ModelNames : SetModel(modelName)

SpecModel == Init /\ [][NextModel]_vars

\* every operation of the service that reads or writes the cache
NextCacheOps ==
  \/ StoreResult(StoredSuggestion) /\ UNCHANGED aside
  \/ StoreAgain /\ UNCHANGED aside
  \/ (\E i \in {1, Len(cache)} : cache # <<>> /\ ReadCached(i)) /\ UNCHANGED aside
  \/ ClearCache /\ UNCHANGED aside
  \/ \E modelName \in {"llama3-70b-8192", "gpt-4"} : SetModel(modelName)

SpecCacheOps == Init /\ [][NextCacheOps]_vars

(***************************************************************************)
(* AIService.sanitizeSuggestion (src/src/command-parser.js:1495-1635) run  *)
(* on a suggestion block by block, then run again on what it returned.     *)
(***************************************************************************)
HljsLine ==
  "<span class=\"hljs-keyword\">const</span> <span class=\"hljs-variable\">result</span>"
    \o " = <span class=\"hljs-number\">42</span>;"

HljsFunction ==
  "<span class=\"hljs-function\">function</span> <span class=\"hljs-title\">greet</span>(name) { }"

\* a line with a Latin-1 letter, a control character, a tab and a dash
\* outside ASCII
Accented == "s = 'caf" \o "é" \o "';" \o BEL \o "\t// " \o LongDash \o " ok"

\* the suggestions sanitizeSuggestion is called with
Suggestions ==
  {"", "#include <iostream>", "if (a < b && c > d) {", HljsLine, HljsFunction,
   "if (a &lt; b &amp;&amp; c &gt; d) {", "&lt;b&gt;", "&amp;lt;", Accented,
   Fence \o "js\nlet x = 1;\n" \o Fence, "**bold** and # done", "return end;",
   ESC \o "[31mred" \o ESC \o "[0m = <i>1</i>;", "res.end(data);", "list.append(x)",
   "#define N 8", "return x + 1;"}

\* the blocks of the body between `let cleaned = suggestion` and the return
Blocks == 10

\* blocks 3 and 4 the other way round: entities decoded before tags go
sanitizeBlockDecodingFirst(k, cleaned) ==
  CASE k = 1 -> stripWrapping(cleaned)
    [] k = 2 -> stripSpans(cleaned)
    [] k = 3 -> decodeEntities(cleaned)
    [] k = 4 -> stripTags(cleaned)
    [] k = 5 -> stripMarkdown(cleaned)
    [] k = 6 -> stripAnsi(cleaned)
    [] k = 7 -> normalizeChars(cleaned)
    [] k = 8 -> cleanWhitespace(cleaned)
    [] k = 9 -> firstGroup(codePatterns, 1, cleaned)
    [] OTHER -> firstGroup(endPatterns, 1, cleaned)

sanitizeBlock(k, cleaned) ==
  CASE k = 1 -> stripWrapping(cleaned)
    [] k = 2 -> stripSpans(cleaned)
    [] k = 3 -> stripTags(cleaned)
    [] k = 4 -> decodeEntities(cleaned)
    [] k = 5 -> stripMarkdown(cleaned)
    [] k = 6 -> stripAnsi(cleaned)
    [] k = 7 -> normalizeChars(cleaned)
    [] k = 8 -> cleanWhitespace(cleaned)
    [] k = 9 -> firstGroup(codePatterns, 1, cleaned)
    [] OTHER -> firstGroup(endPatterns, 1, cleaned)

\* sanitizeSuggestion(suggestion) entered: let cleaned = suggestion
Entered(input, suggestion, call) ==
  [input |-> input, suggestion |-> suggestion, cleaned |-> suggestion, block |-> 0,
   call |-> call]

InitSanitize ==
  /\ Constructed
  /\ sanitizing \in {Entered(x, x, 1) : x \in Suggestions}
  /\ codeContext = NoContext
  /\ screen = NoScreen

\* the next block of the body; `if (!suggestion) return ''` comes first
SanitizeBlock ==
  /\ sanitizing.call > 0
  /\ sanitizing.block < Blocks
  /\ sanitizing' =
       IF sanitizing.block = 0 /\ sanitizing.suggestion = ""
         THEN [sanitizing EXCEPT !.cleaned = "", !.block = Blocks]
         ELSE [sanitizing EXCEPT !.cleaned = sanitizeBlock(sanitizing.block + 1, @),
                                 !.block = @ + 1]
  /\ UNCHANGED <<settings, buffer, currentMode, commandBuffer, enabled, apiKey, cache,
                 aiCompletionInProgress, aiPreviewSuggestion, aiPreviewTimeout, timers,
                 inflight, screenGhost, message, running, edits, calls, last, model,
                 codeContext, screen>>

\* sanitizeSuggestion called with what the first call returned
SanitizeReturned ==
  /\ sanitizing.call = 1
  /\ sanitizing.block = Blocks
  /\ sanitizing' = Entered(sanitizing.input, sanitizing.cleaned, 2)
  /\ UNCHANGED <<settings, buffer, currentMode, commandBuffer, enabled, apiKey, cache,
                 aiCompletionInProgress, aiPreviewSuggestion, aiPreviewTimeout, timers,
                 inflight, screenGhost, message, running, edits, calls, last, model,
                 codeContext, screen>>

NextSanitize ==
  \/ SanitizeBlock
  \/ SanitizeReturned

SpecSanitize == InitSanitize /\ [][NextSanitize]_vars

(***************************************************************************)
(* AIService.getCodeContext (src/src/command-parser.js:1298-1337) on       *)
(* files longer than its limits, called as handleAIPreviewCompletion calls *)
(* it: with the lines of the buffer and its cursor (editor.js:625-627).    *)
(***************************************************************************)
\* s written n times
RECURSIVE repeat(_, _)
repeat(s, n) ==
  IF n = 0 THEN ""
  ELSE IF n % 2 = 1 THEN s \o repeat(s, n - 1)
  ELSE repeat(s \o s, n \div 2)

\* more lines than maxLines, fewer characters than maxChars in any 50 of them
ShortLines == [i \in 1..60 |-> "v" \o toStr(i) \o " = " \o toStr(i) \o ";"]

\* indented lines of about a hundred characters
LongLines ==
  [i \in 1..12 |->
     "  total += values[" \o toStr(i) \o "] * weights[" \o toStr(i) \o "]; // "
       \o repeat("weighted ", 7)]

\* functions separated by empty lines
Functions ==
  [i \in 1..60 |->
     CASE i % 4 = 1 -> "function f" \o toStr(i) \o "(a, b) {"
       [] i % 4 = 2 -> "  return " \o repeat("a * b + ", 8) \o toStr(i) \o ";"
       [] i % 4 = 3 -> "}"
       [] OTHER -> ""]

\* classes without empty lines between them
Classes ==
  [i \in 1..45 |->
     CASE i % 3 = 1 -> "class C" \o toStr(i) \o " {"
       [] i % 3 = 2 -> "\tconstructor() { this.value = " \o repeat("1 + ", 12) \o toStr(i) \o "; }"
       [] OTHER -> "}"]

\* a function whose header line starts where the last maxChars characters
\* before the end of its last line start
AlignedFunction ==
  <<"// header", "function f(a, b) {">>
    \o [i \in 1..10 |-> "  total += step; // " \o repeat("weighted ", 6)]
    \o <<"  return total / weights.size;">>

\* one line longer than maxChars
OneLine == <<repeat("abcdefghi ", 90) \o "end">>

Documents ==
  {InitialContent, ShortLines, LongLines, Functions, Classes, OneLine, AlignedFunction}

\* cursor columns tried in a line: its start, middle and end, and the
\* columns around maxChars
Columns(line) == {0, Len(line) \div 2, Len(line)} \cup ({maxChars, maxChars + 1} \cap 0..Len(line))

InitContext ==
  /\ Constructed
  /\ sanitizing = NotSanitizing
  /\ codeContext = NoContext
  /\ screen = NoScreen

\* the file opened and the cursor placed: TextBuffer.setContent and the
\* cursor keys, seen as one step
OpenAt(content, row, col) ==
  /\ buffer.content = InitialContent /\ buffer.row = 0 /\ buffer.col = 0
  /\ ~codeContext.called
  /\ buffer' = [content |-> content, row |-> row, col |-> col, modified |-> FALSE]
  /\ UNCHANGED <<settings, currentMode, commandBuffer, enabled, apiKey, cache,
                 aiCompletionInProgress, aiPreviewSuggestion, aiPreviewTimeout, timers,
                 inflight, screenGhost, message, running, edits, calls, last, model,
                 sanitizing, codeContext, screen>>

\* const context = this.aiService.getCodeContext(lines, cursor.row, cursor.col)
GetCodeContext ==
  /\ ~codeContext.called
  /\ codeContext' = [called |-> TRUE,
                     text |-> getCodeContext(buffer.content, buffer.row, buffer.col)]
  /\ UNCHANGED <<settings, buffer, currentMode, commandBuffer, enabled, apiKey, cache,
                 aiCompletionInProgress, aiPreviewSuggestion, aiPreviewTimeout, timers,
                 inflight, screenGhost, message, running, edits, calls, last, model,
                 sanitizing, screen>>

NextContext ==
  \/ \E content \in Documents :
       \E row \in 0..(Len(content) - 1) :
         \E col \in Columns(content[row + 1]) : OpenAt(content, row, col)
  \/ GetCodeContext

SpecContext == InitContext /\ [][NextContext]_vars

(***************************************************************************)
(* Editor.render (src/src/editor.js:295-360): the preview composed onto    *)
(* the lines, then the highlighter.  The branches with and without line    *)
(* numbers build processedContent and finalLines by the same code.  A      *)
(* displayed line is the record insertAIPreviewInLine gives; the output of *)
(* the highlighter, a library, is the pair of its arguments.               *)
(***************************************************************************)
\* a line of the file displayed as it is
plain(line) == [before |-> line, ghost |-> "", after |-> ""]

\* SyntaxHighlighter.highlightLine(line, language)
highlightLine(line, language) == [language |-> language, line |-> line]

\* finalLines when the highlighter is not run
unstyled(line) == [language |-> "", line |-> line]

\* a line holding colour sequences, as a log or a captured terminal has
ColouredLine == ESC \o "[31mred" \o ESC \o "[0m = 2;"

RenderedFiles == {InitialContent, <<"const x = 1;", ColouredLine, "}">>}

\* previews the editor stores: plain text, two lines, a text that
\* sanitizeForDisplay empties, and a line with two comparisons
Previews == {"", "+ 1;", "i + 1;\n}", "<b>", "if (a < b && c > d) {"}

\* getLanguage(filename), "" for null
Languages == {"", "javascript"}

\* the editor with a file open, the cursor somewhere in it, in either mode,
\* with or without a preview stored
InitRender ==
  /\ buffer \in {[content |-> c, row |-> r, col |-> k, modified |-> FALSE] :
                   c \in RenderedFiles, r \in 0..2, k \in 0..12}
  /\ buffer.row < Len(buffer.content) /\ buffer.col <= Len(bufLine(buffer))
  /\ currentMode \in {"normal", "insert"}
  /\ commandBuffer = ""
  /\ enabled = TRUE
  /\ apiKey = "gsk"
  /\ cache = <<>>
  /\ aiCompletionInProgress = FALSE
  /\ aiPreviewSuggestion \in Previews
  /\ aiPreviewTimeout = "null"
  /\ timers = 0
  /\ inflight = <<>>
  /\ screenGhost = ""
  /\ message = ""
  /\ running = TRUE
  /\ edits = 0
  /\ calls = 0
  /\ last = Did("init", "")
  /\ model = "llama3-8b-8192"
  /\ settings = InitialSettings
  /\ sanitizing = NotSanitizing
  /\ codeContext = NoContext
  /\ screen = NoScreen

\* the map composing the preview in every mode
processedContentAnyMode(content, cursor, preview, mode) ==
  [index \in 1..Len(content) |->
     IF index - 1 = cursor.row /\ preview # ""
       THEN insertAIPreviewInLine(content[index], cursor.col, preview)
       ELSE plain(content[index])]

\* content.map(...) of lines 310-315 and 346-351
processedContent(content, cursor, preview, mode) ==
  [index \in 1..Len(content) |->
     IF index - 1 = cursor.row /\ preview # "" /\ mode = "insert"
       THEN insertAIPreviewInLine(content[index], cursor.col, preview)
       ELSE plain(content[index])]

\* render() up to finalLines
Render(language) ==
  \E processed \in {processedContent(buffer.content, buffer, aiPreviewSuggestion, currentMode)} :
    /\ screen' =
         [language |-> language,
          processedContent |-> processed,
          highlighterInput |-> IF language # "" THEN processed ELSE <<>>,
          finalLines |->
            [i \in 1..Len(processed) |->
               IF language # "" THEN highlightLine(processed[i], language)
               ELSE unstyled(processed[i])]]
    /\ screenGhost' = processed[buffer.row + 1].ghost
    /\ last' = Did("render", language)
    /\ UNCHANGED <<settings, buffer, currentMode, commandBuffer, enabled, apiKey, cache,
                   aiCompletionInProgress, aiPreviewSuggestion, aiPreviewTimeout, timers,
                   inflight, message, running, edits, calls, model, sanitizing,
                   codeContext>>

NextRender ==
  \/ \E language \in Languages : Render(language)
  \/ aiPreviewSuggestion # "" /\ handleInsertModeKeys("tab") /\ UNCHANGED aside

SpecRender == InitRender /\ [][NextRender]_vars

(***************************************************************************)
(* The command line: the keys of the three modes, with the commands typed  *)
(* a character at a time and run by the return key.                         *)
(***************************************************************************)
NextCommand ==
  \/ \E key \in {":", "i", "down"} : handleNormalModeKeys(key) /\ UNCHANGED aside
  \/ \E key \in {"escape", "i"} : handleInsertModeKeys(key) /\ UNCHANGED aside
  \/ \E key \in CommandKeys : handleCommandModeKeys(key)

SpecCommand == Init /\ [][NextCommand]_vars

(***************************************************************************)
(* The service on its own: getAISuggestion up to the provider call, the    *)
(* answer or the failure of a call in flight, and setModel between them.   *)
(***************************************************************************)
\* contexts the editor sends: ten characters and more, two of them with the
\* same hash
Contexts == {"let x = Aa", "let x = BB", "let y = 1;"}

\* getAISuggestion calling the provider before it looks into the cache
GetAISuggestionCallingFirst(context) ==
  \E cacheKey \in {getCacheKey(context)} :
    /\ isAvailable
    /\ IF cacheHas(cache, cacheKey) /\ calls >= MaxCalls
         THEN /\ last' = [Did("getAISuggestion", context) EXCEPT
                            !.outcome = "hit", !.raw = cacheGet(cache, cacheKey)]
              /\ UNCHANGED <<inflight, calls>>
         ELSE /\ calls < MaxCalls
              /\ calls' = calls + 1
              /\ inflight' =
                   Append(inflight, [key |-> cacheKey, context |-> context, model |-> model])
              /\ last' = [Did("getAISuggestion", context) EXCEPT
                            !.outcome = "call", !.call = TRUE]
    /\ UNCHANGED <<buffer, currentMode, commandBuffer, enabled, apiKey, cache,
                   aiCompletionInProgress, aiPreviewSuggestion, aiPreviewTimeout, timers,
                   screenGhost, message, running, edits>>

\* getAISuggestion before the provider answers (command-parser.js:1360-1401)
GetAISuggestion(context) ==
  \E cacheKey \in {getCacheKey(context)} :
    /\ isAvailable
    /\ IF cacheHas(cache, cacheKey)
         THEN /\ last' = [Did("getAISuggestion", context) EXCEPT
                            !.outcome = "hit", !.raw = cacheGet(cache, cacheKey)]
              /\ UNCHANGED <<inflight, calls>>
         ELSE /\ calls < MaxCalls
              /\ calls' = calls + 1
              /\ inflight' =
                   Append(inflight, [key |-> cacheKey, context |-> context, model |-> model])
              /\ last' = [Did("getAISuggestion", context) EXCEPT
                            !.outcome = "call", !.call = TRUE]
    /\ UNCHANGED <<buffer, currentMode, commandBuffer, enabled, apiKey, cache,
                   aiCompletionInProgress, aiPreviewSuggestion, aiPreviewTimeout, timers,
                   screenGhost, message, running, edits>>

\* the provider answers the call: sanitizeSuggestion, cacheResult, return
\* (command-parser.js:1403-1438)
Answered(i, raw) ==
  \E req \in {inflight[i]}, suggestion \in {Sanitized[raw]} :
    /\ cache' = IF suggestion # "" THEN cacheResult(cache, req.key, suggestion) ELSE cache
    /\ inflight' = without(inflight, i)
    /\ last' = [Did("answer", req.context) EXCEPT !.outcome = "ok", !.raw = suggestion]
    /\ UNCHANGED <<buffer, currentMode, commandBuffer, enabled, apiKey,
                   aiCompletionInProgress, aiPreviewSuggestion, aiPreviewTimeout, timers,
                   screenGhost, message, running, edits, calls>>

\* the call fails and getAISuggestion rethrows (command-parser.js:1439-1459)
Rejected(i, f) ==
  /\ inflight' = without(inflight, i)
  /\ last' = [Did("answer", inflight[i].context) EXCEPT
                !.outcome = f, !.raw = rethrown(thrownInside(f))]
  /\ UNCHANGED <<buffer, currentMode, commandBuffer, enabled, apiKey, cache,
                 aiCompletionInProgress, aiPreviewSuggestion, aiPreviewTimeout, timers,
                 screenGhost, message, running, edits, calls>>

NextService ==
  \/ (\E context \in Contexts : GetAISuggestion(context)) /\ UNCHANGED aside
  \/ (\E i \in 1..Len(inflight), raw \in RawResponses : Answered(i, raw)) /\ UNCHANGED aside
  \/ (\E i \in 1..Len(inflight), f \in {"abort", "429"} : Rejected(i, f)) /\ UNCHANGED aside
  \/ \E modelName \in {"llama3-70b-8192", "gpt-4"} : SetModel(modelName)

SpecService == Init /\ [][NextService]_vars

(***************************************************************************)
(* Typing that may stop.  The user presses keys or does not; the event     *)
(* loop runs the callback of a timer that is due, and a request in flight  *)
(* is settled, by an answer, an error or its own ten-second abort.         *)
(***************************************************************************)
Responds ==
  \/ \E i \in 1..Len(inflight), raw \in RawResponses : RespondOk(i, raw)
  \/ \E i \in 1..Len(inflight), f \in Failures : RespondFailure(i, f)

NextLive ==
  \/ (\E key \in {"i", "down"} : handleNormalModeKeys(key)) /\ UNCHANGED aside
  \/ (\E key \in {"a", "escape"} : handleInsertModeKeys(key)) /\ UNCHANGED aside
  \/ TimerExpiry /\ UNCHANGED aside
  \/ Responds /\ UNCHANGED aside

\* the step TimerExpiry takes, told by what it leaves in timers and last:
\* the callback of a timer that is due runs
TimerFires ==
  /\ running
  /\ timers > 0
  /\ timers' = timers - 1
  /\ \E outcome \in {"call", "hit", "skip", "dropped"} :
       last' = [Did("expiry", "") EXCEPT !.outcome = outcome, !.call = (outcome = "call")]

\* the step Responds takes, told by what it leaves in inflight and last:
\* the request in flight is settled
Settles ==
  /\ running
  /\ inflight # <<>>
  /\ inflight' = Tail(inflight)
  /\ \E outcome \in Failures \cup {"ok"}, raw \in RawResponses \cup {""} :
       last' = [Did("response", "") EXCEPT !.outcome = outcome, !.raw = raw]

SpecLive ==
  /\ Init
  /\ [][NextLive]_vars
  /\ WF_<<timers, last>>(TimerFires)
  /\ WF_<<inflight, last>>(Settles)

(***************************************************************************)
(* Completion and the command line together: a request is issued in insert *)
(* mode, and :toggleAI is typed and run while it is in flight or after it  *)
(* was answered.                                                           *)
(***************************************************************************)
ToggleKeys == {"return"} \cup {SubSeq("toggleAI", i, i) : i \in 1..Len("toggleAI")}

NextToggle ==
  \/ (\E key \in {":", "i", "down"} : handleNormalModeKeys(key)) /\ UNCHANGED aside
  \/ (\E key \in {"i", "escape"} : handleInsertModeKeys(key)) /\ UNCHANGED aside
  \/ \E key \in ToggleKeys : handleCommandModeKeys(key)
  \/ TimerExpiry /\ UNCHANGED aside
  \/ Responds /\ UNCHANGED aside

SpecToggle == Init /\ [][NextToggle]_vars

(***************************************************************************)
(* The claims.  A step is told by the record it leaves in last'; unprimed  *)
(* variables are the state the step started from.                          *)
(***************************************************************************)
\* no preview stored, no request in flight
Idle == aiPreviewSuggestion = "" /\ ~aiCompletionInProgress /\ inflight = <<>>

\* the editor has left the state request req was made in: the mode is not
\* insert, the cursor moved or the cursor line was edited
Cancelled(req) ==
  \/ currentMode # "insert"
  \/ buffer.row # req.row
  \/ buffer.col # req.col
  \/ bufLine(buffer) # req.currentLine

\* C1: when a response arrives for a request that was followed by a
\* cancelling event (Escape, cursor movement, mode change, new edit), it sets
\* no preview and the controller ends idle.
C1_LateResponseIgnored ==
  [][(last'.op = "response" /\ inflight # <<>> /\ Cancelled(inflight[1]))
       => (aiPreviewSuggestion' = "" /\ ~aiCompletionInProgress' /\ inflight' = <<>>)]_vars

\* C2: at most one provider request is outstanding at any time, and a
\* debounce expiry or a Tab press while a request is outstanding makes no
\* call and leaves nothing queued: no request is added, no timer is started.
C2_SingleFlight ==
  [][/\ Len(inflight') <= 1
     /\ (inflight # <<>> /\ (last'.op = "expiry" \/ (last'.op = "key" /\ last'.key = "tab")))
          => (calls' = calls /\ inflight' = inflight /\ timers' <= timers)]_vars

\* C2, its case: the debounce timer expired in insert mode while a request
\* was outstanding, and the trigger was dropped
C2_TriggerDropped ==
  /\ last.op = "expiry"
  /\ last.outcome = "dropped"
  /\ currentMode = "insert"
  /\ isAvailable
  /\ Len(inflight) = 1
  /\ timers = 0

\* the context at the cursor is one handleAIPreviewCompletion asks a
\* suggestion for, and the cache holds none for it
ContextSuitable ==
  LET b == validateCursor(buffer)
      line == bufLine(b)
  IN  /\ ~(b.col = 0 /\ trim(line) = "")
      /\ b.col = 0 \/ SubSeq(line, b.col, b.col) \notin {";", "}", "]", ")"}
      /\ Len(trim(getCodeContext(b.content, b.row, b.col))) >= 10

ContextCached ==
  LET b == validateCursor(buffer)
  IN  cacheHas(cache, getCacheKey(getCodeContext(b.content, b.row, b.col)))

\* the step is a typed character or a backspace in insert mode
QualifyingEdit ==
  currentMode = "insert" /\ last'.op = "key" /\ last'.key \in {"i", "backspace"}

C4_ArrowDismissesPreview ==
  [][(/\ aiPreviewSuggestion # ""
      /\ screenGhost # ""
      /\ currentMode = "insert"
      /\ last'.op = "key"
      /\ last'.key \in {"up", "down", "left", "right"})
       => (/\ aiPreviewSuggestion' = ""
           /\ ~aiCompletionInProgress'
           /\ inflight' = <<>>
           /\ screenGhost' = ""
           /\ buffer'.content = buffer.content)]_vars

\* the document up to the cursor, and from the cursor on
textBefore(b) == joinLines(Append(SubSeq(b.content, 1, b.row), slice(bufLine(b), 0, b.col)))

textAfter(b) ==
  joinLines(<<sliceFrom(bufLine(b), b.col)>> \o SubSeq(b.content, b.row + 2, Len(b.content)))

\* C5: Tab in insert mode while suggestion S is stored makes the document
\* (text before the cursor) + S + (text after the cursor), puts the cursor
\* right after the inserted text, clears the preview, leaves the controller
\* idle, and makes no provider call.
C5_TabAccepts ==
  [][(aiPreviewSuggestion # "" /\ currentMode = "insert" /\ last'.op = "key"
      /\ last'.key = "tab")
       => (/\ joinLines(buffer'.content)
                = textBefore(buffer) \o aiPreviewSuggestion \o textAfter(buffer)
           /\ textBefore(buffer') = textBefore(buffer) \o aiPreviewSuggestion
           /\ aiPreviewSuggestion' = ""
           /\ ~aiCompletionInProgress'
           /\ inflight' = <<>>
           /\ calls' = calls)]_vars

\* the lines of the document after the edit that key makes by itself
ownEdit(key) ==
  IF currentMode # "insert" THEN buffer.content
  ELSE IF key = "return" THEN insertNewLine(buffer).content
  ELSE IF key = "backspace" THEN deleteCharacter(buffer).content
  ELSE IF key = "tab" THEN insertCharacter(buffer, "\t").content
  ELSE IF Len(key) = 1 THEN insertCharacter(buffer, key).content
  ELSE buffer.content

\* C6: a debounce expiry and a provider response (which may store a preview
\* and render the overlay) leave the document lines unchanged, and a key
\* other than the accepting Tab leaves them unchanged apart from its own
\* edit: only the accept writes suggestion text.
C6_OnlyAcceptWrites ==
  [][/\ last'.op \in {"expiry", "response"} => buffer'.content = buffer.content
     /\ (/\ last'.op = "key"
         /\ ~(last'.key = "tab" /\ aiPreviewSuggestion # "" /\ currentMode = "insert"))
          => buffer'.content \in {buffer.content, ownEdit(last'.key)}]_vars

\* C6, its case: a response stored a preview and the overlay is rendered,
\* and the document holds only the character typed
C6_PreviewStoredDocUntouched ==
  /\ last.op = "response"
  /\ last.outcome = "ok"
  /\ aiPreviewSuggestion # ""
  /\ screenGhost # ""
  /\ buffer.content = <<"let a = 1", "i">>

\* the failures of authentication (HTTP 401, 403) and of rate limiting (429)
AuthFailures == {"401", "403"}

RateLimitFailures == {"429"}

cleanedFor(req, raw) == cleanAISuggestion(Sanitized[raw], req.currentLine, req.col)

AcceptedModels == {"mixtral-8x7b-32768", "llama3-8b-8192", "llama3-70b-8192", "gemma-7b-it"}

\* C11: setModel with an accepted name makes it the active model, empties
\* the whole cache and returns true; with any other name it returns false
\* and leaves the active model and the cache as they were.
C11_SetModel ==
  [][last'.op = "setModel" =>
       IF last'.key \in AcceptedModels
         THEN model' = last'.key /\ cache' = <<>> /\ last'.outcome = "true"
         ELSE model' = model /\ cache' = cache /\ last'.outcome = "false"]_vars

\* an accepted name was set while the cache held several entries, and
\* emptied it
C11_ModelChangedCacheEmptied ==
  /\ last.op = "setModel" /\ last.key = "gemma-7b-it" /\ last.outcome = "true"
  /\ last.cleared >= 2
  /\ model = "gemma-7b-it" /\ cache = <<>>

\* the call of sanitizeSuggestion on `input` has returned sanitizing.cleaned
Returned(input) ==
  sanitizing.call = 1 /\ sanitizing.block = Blocks /\ sanitizing.input = input

\* C12: sanitizing what sanitizeSuggestion returned returns it unchanged.
C12_Idempotent ==
  sanitizing.call = 2 /\ sanitizing.block = Blocks
    => sanitizing.cleaned = sanitizing.suggestion

\* C13: sanitizeSuggestion returns "#include <iostream>" unchanged and
\* returns "if (a < b && c > d) {" unchanged.
C13_CodeUnchanged ==
  /\ Returned("#include <iostream>") => sanitizing.cleaned = "#include <iostream>"
  /\ Returned("if (a < b && c > d) {") => sanitizing.cleaned = "if (a < b && c > d) {"

SafeChars == Printable \cup {"\t", "\n", "\r"}

\* C19: every character of what sanitizeSuggestion returns is printable
\* ASCII, a tab, a newline or a carriage return.
C19_OutputSafeChars ==
  sanitizing.block = Blocks
    => \A i \in 1..Len(sanitizing.cleaned) : SubSeq(sanitizing.cleaned, i, i) \in SafeChars

\* a suggestion holding a letter outside ASCII and a control character was
\* sanitized to a text that is not empty
C19_AccentedSanitized ==
  /\ Returned(Accented) /\ sanitizing.cleaned # ""
  /\ \E i \in 1..Len(Accented) : SubSeq(Accented, i, i) \notin SafeChars

\* C20: entities are decoded after the tags were removed: the comparison
\* written with entities comes out with < && >, and &lt;b&gt; comes out as
\* the text <b>.
C20_EntitiesDecodedAfterTags ==
  /\ Returned("if (a &lt; b &amp;&amp; c &gt; d) {")
       => sanitizing.cleaned = "if (a < b && c > d) {"
  /\ Returned("&lt;b&gt;") => sanitizing.cleaned = "<b>"

\* the entity-written tag came out decoded
C20_DecodedTagKept == Returned("&lt;b&gt;") /\ sanitizing.cleaned = "<b>"

\* the lines from `first` (0-based) to the cursor row, the last one cut at
\* the cursor column, joined by newlines
beforeCursor(b, first) ==
  joinLines(SubSeq(b.content, first + 1, b.row) \o <<SubSeq(bufLine(b), 1, b.col)>>)

isSuffix(t, s) == Len(t) <= Len(s) /\ SubSeq(s, Len(s) - Len(t) + 1, Len(s)) = t

\* C15: the context has at most 800 characters, and they come from the at
\* most 50 lines that end at the cursor row.
C15_ContextBounded ==
  codeContext.called =>
    /\ Len(codeContext.text) <= 800
    /\ isSuffix(codeContext.text, beforeCursor(buffer, Max(0, buffer.row - 49)))

\* the context of a cursor below line 50 of a file, in a window of more than
\* 800 characters
C15_BothLimitsReached ==
  /\ codeContext.called /\ buffer.row >= 50
  /\ Len(beforeCursor(buffer, buffer.row - 49)) > 800
  /\ codeContext.text # ""

\* C16: the context is a suffix of the text before the cursor (the lines up
\* to the cursor row joined, the cursor line cut at the cursor column): it
\* holds no character after the cursor.
C16_ContextSuffixUpToCursor ==
  codeContext.called => isSuffix(codeContext.text, beforeCursor(buffer, 0))

\* the context of a cursor inside a line, with text after it
C16_CursorInsideLine ==
  /\ codeContext.called /\ codeContext.text # ""
  /\ 0 < buffer.col /\ buffer.col < Len(bufLine(buffer))
  /\ buffer.row + 1 < Len(buffer.content)

\* C17: the line displayed with a preview is the stored line's text before
\* the cursor column, the styled suggestion, and the stored line's text
\* from the cursor column on, so that taking the suggestion out gives the
\* stored line; the stored line is not modified.
C17_OverlayAroundStoredLine ==
  [][last'.op = "render" /\ screen'.processedContent[buffer.row + 1].ghost # "" =>
       /\ screen'.processedContent[buffer.row + 1].before = slice(bufLine(buffer), 0, buffer.col)
       /\ screen'.processedContent[buffer.row + 1].after = sliceFrom(bufLine(buffer), buffer.col)
       /\ buffer' = buffer]_vars

\* a preview is to be composed: one is stored and the editor is in insert mode
Composing == aiPreviewSuggestion # "" /\ currentMode = "insert"

\* C18: a render composes the preview onto the cursor row when a preview is
\* stored and the mode is insert, and onto no line otherwise; every other
\* line is passed on as stored; the highlighter, when it runs, is given
\* the lines after the composition.
C18_OverlayBeforeHighlighting ==
  [][last'.op = "render" =>
       /\ Len(screen'.processedContent) = Len(buffer.content)
       /\ \A i \in 1..Len(buffer.content) :
            screen'.processedContent[i] =
              IF i = buffer.row + 1 /\ Composing
                THEN insertAIPreviewInLine(buffer.content[i], buffer.col, aiPreviewSuggestion)
                ELSE plain(buffer.content[i])
       /\ screen'.language # "" =>
            /\ screen'.highlighterInput = screen'.processedContent
            /\ \A i \in 1..Len(buffer.content) :
                 screen'.finalLines[i] =
                   highlightLine(screen'.processedContent[i], screen'.language)]_vars

\* a render with the highlighter on, in insert mode, with the preview shown
\* inside the cursor line of a file of several lines
C18_PreviewHighlighted ==
  /\ last.op = "render" /\ screen.language # "" /\ Composing
  /\ Len(buffer.content) > 1
  /\ screen.highlighterInput[buffer.row + 1].ghost # ""
  /\ screen.highlighterInput[buffer.row + 1].before # ""
  /\ screen.highlighterInput[buffer.row + 1].after # ""

\* the names :aimodel shows as available
ListedModels == {getSupportedModels[i] : i \in 1..Len(getSupportedModels)}

\* C21: setModel accepts every name getSupportedModels lists and makes it
\* the active model.
C21_ListedModelsAccepted ==
  [][last'.op = "setModel" /\ last'.key \in ListedModels =>
       last'.outcome = "true" /\ model' = last'.key]_vars

\* the step is the Tab key pressed in insert mode with no preview stored
TabWithoutPreview ==
  currentMode = "insert" /\ aiPreviewSuggestion = "" /\ last'.op = "key" /\ last'.key = "tab"

\* the step put exactly one tab character at the cursor
TabInserted ==
  /\ Len(buffer'.content) = Len(buffer.content)
  /\ \A i \in 1..Len(buffer.content) :
       buffer'.content[i] =
         IF i = buffer.row + 1
           THEN slice(bufLine(buffer), 0, buffer.col) \o "\t"
                  \o sliceFrom(bufLine(buffer), buffer.col)
         ELSE buffer.content[i]
  /\ buffer'.row = buffer.row /\ buffer'.col = buffer.col + 1

Ran(command) == last'.op = "command" /\ last'.key = command

\* C23: :set number / :set nonumber turn the line numbers on / off,
\* :set relativenumber / :set norelativenumber and rnu / nornu the relative
\* line numbers, :set syntax / :set nosyntax the syntax highlighting; a
\* bare :set changes no setting.
C23_SetCommandsChangeSettings ==
  [][/\ Ran("set number") => settings'.showLineNumbers
     /\ Ran("set nonumber") => ~settings'.showLineNumbers
     /\ Ran("set relativenumber") \/ Ran("set rnu") => settings'.relativeLineNumbers
     /\ Ran("set norelativenumber") \/ Ran("set nornu") => ~settings'.relativeLineNumbers
     /\ Ran("set syntax") => settings'.syntaxHighlighting
     /\ Ran("set nosyntax") => ~settings'.syntaxHighlighting
     /\ Ran("set") => settings' = settings]_vars

\* C24: :q ends the process only when the buffer has no unsaved changes and
\* otherwise leaves it running with the warning that nothing was written;
\* :q! ends it whatever the buffer holds; :wq ends it only when the file
\* was written.
C24_QuitGuarded ==
  [][/\ Ran("q") =>
          IF buffer.modified
            THEN running' /\ message' = "No write since last change (add ! to override)"
            ELSE ~running'
     /\ Ran("q!") => ~running'
     /\ Ran("wq") => (~running' <=> last'.raw = "written")]_vars

\* C24 without the text of the warning: which of the three commands ends
\* the process
C24_QuitOnlyWhenAllowed ==
  [][/\ Ran("q") => (running' <=> buffer.modified)
     /\ Ran("q!") => ~running'
     /\ Ran("wq") => (~running' <=> last'.raw = "written")
     /\ Ran("wq") /\ ~running' => ~buffer'.modified]_vars

\* C25: :ai leaves the service enabled or disabled as it was; :toggleAI
\* flips it.
C25_StatusLeavesEnabled ==
  [][/\ Ran("ai") => enabled' = enabled
     /\ Ran("toggleAI") => enabled' = ~enabled]_vars

\* the step was the key named, handled by the handler of the mode
Pressed(key) == last'.op = "key" /\ last'.key = key

\* C26: the mode is one of normal, insert and command and starts as normal;
\* it changes only from normal to insert on i, from normal to command on
\* the colon, from insert to normal on escape, and from command to normal
\* on escape or return.
C26_ModeTransitions ==
  /\ currentMode = "normal"
  /\ [](currentMode \in {"normal", "insert", "command"})
  /\ [][currentMode' # currentMode =>
          \/ currentMode = "normal" /\ currentMode' = "insert" /\ Pressed("i")
          \/ currentMode = "normal" /\ currentMode' = "command" /\ Pressed(":")
          \/ currentMode = "insert" /\ currentMode' = "normal" /\ Pressed("escape")
          \/ /\ currentMode = "command" /\ currentMode' = "normal"
             /\ Pressed("escape") \/ last'.op = "command"]_vars

\* the return key ran a typed command, which took the editor back to normal
\* mode, after insert mode had been entered and left
C26_CommandRanAfterInsert ==
  /\ last.op = "command" /\ last.key = "set nosyntax"
  /\ currentMode = "normal" /\ running
  /\ buffer.modified

\* C27: whatever cacheResult, getAISuggestion, clearCache and setModel did,
\* the cache holds at most maxCacheSize entries, each under a key of its own.
C27_CacheBounded ==
  /\ Len(cache) <= maxCacheSize
  /\ \A i, j \in 1..Len(cache) : cache[i].key = cache[j].key => i = j

\* a result was stored while the cache was full, after the cache had been
\* emptied at least once
C27_StoredIntoFullCache ==
  /\ last.op = "store"
  /\ Len(cache) = maxCacheSize
  /\ calls > maxCacheSize
  /\ model = "llama3-70b-8192"

\* the provider call was aborted by its timer before it answered
TimedOut == last'.op = "response" /\ last'.outcome = "abort"

KeyOverPreview ==
  /\ aiPreviewSuggestion # ""
  /\ currentMode \in {"insert", "normal"}
  /\ last'.op = "key"
  /\ last'.key # "tab"

\* what the handlers of insert and normal mode do to the buffer and to the
\* mode on the key when no preview is stored
BufferAfter(key) ==
  IF key \in {"left", "right", "up", "down"} THEN moved(buffer, key)
  ELSE IF currentMode = "normal" \/ key = "escape" THEN buffer
  ELSE IF key = "return" THEN insertNewLine(buffer)
  ELSE IF key = "backspace" THEN deleteCharacter(buffer)
  ELSE insertCharacter(buffer, key)

ModeAfter(key) ==
  IF currentMode = "insert" THEN IF key = "escape" THEN "normal" ELSE "insert"
  ELSE IF key = ":" THEN "command"
  ELSE IF key = "i" THEN "insert"
  ELSE "normal"

\* C29: a key other than Tab pressed in insert or normal mode while a
\* preview is stored clears the preview and otherwise does to the buffer,
\* the cursor and the mode what it does without a preview; its handler
\* raises no error and the editor keeps running.
C29_KeyActsUnderPreview ==
  [][KeyOverPreview =>
       /\ ~last'.threw
       /\ running'
       /\ aiPreviewSuggestion' = ""
       /\ buffer' = validateCursor(BufferAfter(last'.key))
       /\ currentMode' = ModeAfter(last'.key)]_vars

\* the last step typed a character in insert mode, with the service
\* available and a context at the cursor that a suggestion is asked for
Typed ==
  /\ running
  /\ currentMode = "insert"
  /\ isAvailable
  /\ last.op = "key" /\ last.key = "a" /\ ~last.threw
  /\ ContextSuitable
  /\ calls < MaxCalls

\* the debounce timer expired and a suggestion was asked for or read from
\* the cache
LookedUp == last.op = "expiry" /\ last.outcome \in {"call", "hit"}

\* the user went on: a key was handled that left insert mode, or moved the
\* cursor off a suitable context, or ended the process
WentOn == ~running \/ currentMode # "insert" \/ (last.op = "key" /\ ~Typed)

\* C30: after a character typed in insert mode with the service available,
\* whether a request was in flight or not, a suggestion is eventually asked
\* for or read from the cache, unless the user goes on.
C30_TypedEventuallyLookedUp == Typed ~> (LookedUp \/ WentOn)

\* C30 for a character typed while no request is in flight
C30_TypedIdleEventuallyLookedUp ==
  (Typed /\ ~aiCompletionInProgress) ~> (LookedUp \/ WentOn)

\* the answer to a call in flight was written to the cache
AnswerCached == last'.op = "answer" /\ last'.outcome = "ok" /\ last'.raw # ""

\* C31: an answer is written to the cache only when the call it answers was
\* issued under the model that is active when the answer arrives.
C31_CachedUnderActiveModel ==
  [][AnswerCached =>
       \E i \in 1..Len(inflight) :
         inflight' = without(inflight, i) /\ inflight[i].model = model]_vars

\* the step was getAISuggestion(context) up to its return or its call
Asked == last'.op = "getAISuggestion"

\* C36: getAISuggestion on a context whose key the cache holds returns the
\* cached suggestion, calls no provider and leaves the cache as it is, order
\* included; on a miss it calls the provider once.
C36_HitShortCircuits ==
  [][Asked =>
       IF cacheHas(cache, getCacheKey(last'.key))
         THEN /\ last'.raw = cacheGet(cache, getCacheKey(last'.key))
              /\ ~last'.call
              /\ calls' = calls /\ inflight' = inflight /\ cache' = cache
         ELSE /\ last'.call
              /\ calls' = calls + 1
              /\ Len(inflight') = Len(inflight) + 1
              /\ cache' = cache]_vars

\* the second request for a context was answered from the cache, after one
\* provider call
C36_SecondRequestHit ==
  /\ last.op = "getAISuggestion" /\ last.outcome = "hit"
  /\ last.key = "let y = 1;"
  /\ last.raw = StoredSuggestion
  /\ calls = 1 /\ inflight = <<>>
  /\ Len(cache) = 1

\* C37: a hit that follows the storing of the only entry of the cache is a
\* hit for the context that entry was stored for.
C37_HitForStoredContext ==
  [][(/\ last.op = "answer" /\ last.outcome = "ok"
      /\ Len(cache) = 1
      /\ Asked /\ last'.outcome = "hit")
       => last'.key = last.key]_vars

\* C32: while the service is toggled off no preview is stored and none is
\* rendered.
C32_NoPreviewWhileDisabled ==
  ~enabled => aiPreviewSuggestion = "" /\ screenGhost = ""

\* single lines of printable ASCII code with no tag, entity, fence, backtick,
\* asterisk, escape sequence, run of blanks or prose in front
PlainCode == {"res.end(data);", "list.append(x)", "#define N 8", "return x + 1;"}

\* C33: sanitizeSuggestion returns a single line of plain code unchanged,
\* also when the code holds the letters of end, finish or complete or
\* starts with a number sign.
C33_PlainCodeUnchanged ==
  \A input \in PlainCode : Returned(input) => sanitizing.cleaned = input

\* the Tab key accepts the preview that the last render displayed
AcceptingShown ==
  last.op = "render" /\ last'.op = "key" /\ last'.key = "tab" /\ last'.outcome = "accept"

\* C34: accepting a preview writes into the document the ghost text that
\* was displayed for it, and nothing else.
C34_AcceptedIsDisplayed ==
  [][AcceptingShown => buffer' = insertLines(buffer, splitLines(screenGhost), 1)]_vars

\* the boundary kinds of the truncation in priority order: blank line, block
\* keyword at line start, indented line, newline
boundaryKinds == <<{"\n\n"}, {"\nfunction ", "\nclass ", "\ndef "}, {"\n  "}, {"\n"}>>

\* the indices in the first half of tail at which boundary occurs
occurrences(tail, boundary) ==
  {i \in 0..(Len(tail) - Len(boundary)) :
     2 * i < Len(tail) /\ SubSeq(tail, i + 1, i + Len(boundary)) = boundary}

\* the tails cut immediately after an occurrence of the first kind that
\* occurs in the first half of tail, the tail itself when none does
RECURSIVE reanchored(_, _)
reanchored(tail, k) ==
  IF k > Len(boundaryKinds) THEN {tail}
  ELSE IF \E boundary \in boundaryKinds[k] : occurrences(tail, boundary) # {}
    THEN {sliceFrom(tail, i + Len(boundary)) :
            <<boundary, i>> \in {<<b, j>> \in boundaryKinds[k] \X (0..Len(tail)) :
                                   j \in occurrences(tail, b)}}
  ELSE reanchored(tail, k + 1)

\* the joined text before the cursor, as getCodeContext builds it
joinedBeforeCursor == getCodeContextUntruncated(buffer.content, buffer.row, buffer.col)

\* C35: when the joined text before the cursor is longer than maxChars, the
\* context is its last maxChars characters cut immediately after an
\* occurrence of the first boundary kind (blank line, block keyword,
\* indented line, newline) that occurs in the first half of that tail, and
\* the tail itself when no kind occurs there.
C35_ReanchoredAtFirstKind ==
  (codeContext.called /\ Len(joinedBeforeCursor) > maxChars)
    => \E tail \in {sliceFrom(joinedBeforeCursor, Len(joinedBeforeCursor) - maxChars)} :
         codeContext.text \in reanchored(tail, 1)

(***************************************************************************)
(* Editor.handleAICompletion (src/src/editor.js:690-738), the completion   *)
(* that writes the suggestion into the buffer, beside the preview: both    *)
(* handlers share aiCompletionInProgress.                                  *)
(***************************************************************************)
\* the catch block of handleAICompletion: the message it shows
completionErrorMessage(errorMessage) ==
  IF includes(errorMessage, "timeout") THEN "[AI] Request timeout - try again"
  ELSE IF includes(errorMessage, "Rate limit") THEN "[AI] Rate limit exceeded"
  ELSE IF includes(errorMessage, "Authentication") THEN "[AI] Check API key configuration"
  ELSE IF includes(errorMessage, "not available") THEN "[AI] Service not configured"
  ELSE "[AI] Failed to fetch completion"

\* a request made by handleAICompletion
direct(req) == "context" \in DOMAIN req

\* handleAICompletion up to the await of the provider, and to its end when
\* getAISuggestion throws or answers from the cache
handleAICompletion ==
  /\ running
  /\ IF aiCompletionInProgress
       THEN /\ last' = [Did("completion", "") EXCEPT !.outcome = "busy"]
            /\ UNCHANGED <<buffer, aiCompletionInProgress, inflight, screenGhost, message,
                           edits, calls>>
     ELSE \E b \in {validateCursor(buffer)} :
       \E context \in {getCodeContext(b.content, b.row, b.col)} :
         \E cacheKey \in {getCacheKey(context)} :
           /\ screenGhost' = renderGhost(b, currentMode, aiPreviewSuggestion)
           /\ IF ~isAvailable
                THEN /\ buffer' = b
                     /\ aiCompletionInProgress' = FALSE
                     /\ message' =
                          completionErrorMessage(
                            "AI service is not available - check API key configuration")
                     /\ last' = [Did("completion", "") EXCEPT !.outcome = "unavailable"]
                     /\ UNCHANGED <<inflight, edits, calls>>
              ELSE IF cacheHas(cache, cacheKey)
                THEN /\ edits < MaxEdits
                     /\ edits' = edits + 1
                     /\ buffer' = insertAISuggestion(b, cacheGet(cache, cacheKey))
                     /\ aiCompletionInProgress' = FALSE
                     /\ message' = "[AI] Suggestion applied"
                     /\ last' = [Did("completion", "") EXCEPT !.outcome = "hit"]
                     /\ UNCHANGED <<inflight, calls>>
              ELSE /\ calls < MaxCalls
                   /\ calls' = calls + 1
                   /\ buffer' = b
                   /\ aiCompletionInProgress' = TRUE
                   /\ inflight' =
                        Append(inflight,
                               [key |-> cacheKey, currentLine |-> b.content[b.row + 1],
                                row |-> b.row, col |-> b.col, tab |-> FALSE,
                                context |-> context])
                   /\ message' = "[AI] Fetching suggestion..."
                   /\ last' = [Did("completion", "") EXCEPT !.outcome = "call", !.call = TRUE]
                   /\ UNCHANGED edits
  /\ UNCHANGED <<currentMode, commandBuffer, enabled, apiKey, cache, aiPreviewSuggestion,
                 aiPreviewTimeout, timers, running>>

\* the provider answers request i of handleAICompletion with a message of
\* content raw: the rest of getAISuggestion and of the handler
CompletionAnswered(i, raw) ==
  \E req \in {inflight[i]}, suggestion \in {Sanitized[raw]} :
    /\ running
    /\ direct(req)
    /\ cache' = IF suggestion # "" THEN cacheResult(cache, req.key, suggestion) ELSE cache
    /\ buffer' = insertAISuggestion(buffer, suggestion)
    /\ message' = IF suggestion # "" THEN "[AI] Suggestion applied"
                                     ELSE "[AI] No suggestion available"
    /\ aiCompletionInProgress' = FALSE
    /\ inflight' = without(inflight, i)
    /\ last' = [Did("completed", "") EXCEPT !.outcome = "ok", !.raw = raw]
    /\ UNCHANGED <<currentMode, commandBuffer, enabled, apiKey, aiPreviewSuggestion,
                   aiPreviewTimeout, timers, screenGhost, running, edits, calls>>

\* CompletionFailed without the finally block of the handler
CompletionFailedStuck(i, f) ==
  /\ running
  /\ direct(inflight[i])
  /\ message' = completionErrorMessage(rethrown(thrownInside(f)))
  /\ aiCompletionInProgress' = aiCompletionInProgress
  /\ inflight' = without(inflight, i)
  /\ last' = [Did("completed", "") EXCEPT !.outcome = f]
  /\ UNCHANGED <<buffer, currentMode, commandBuffer, enabled, apiKey, cache,
                 aiPreviewSuggestion, aiPreviewTimeout, timers, screenGhost, running, edits,
                 calls>>

\* request i of handleAICompletion fails in way f
CompletionFailed(i, f) ==
  /\ running
  /\ direct(inflight[i])
  /\ message' = completionErrorMessage(rethrown(thrownInside(f)))
  /\ aiCompletionInProgress' = FALSE
  /\ inflight' = without(inflight, i)
  /\ last' = [Did("completed", "") EXCEPT !.outcome = f]
  /\ UNCHANGED <<buffer, currentMode, commandBuffer, enabled, apiKey, cache,
                 aiPreviewSuggestion, aiPreviewTimeout, timers, screenGhost, running, edits,
                 calls>>

\* the keys that bring the editor to a line with text before the cursor
CompletionKeys == {"escape", "i"}

\* a request that times out, one the provider refuses, one that cannot be sent
CompletionFailures == {"abort", "429", "network"}

NextCompletion ==
  \/ (\E key \in {"i", "down"} : handleNormalModeKeys(key)) /\ UNCHANGED aside
  \/ (\E key \in CompletionKeys : handleInsertModeKeys(key)) /\ UNCHANGED aside
  \/ TimerExpiry /\ UNCHANGED aside
  \/ (\E i \in 1..Len(inflight), raw \in RawResponses :
        ~direct(inflight[i]) /\ RespondOk(i, raw)) /\ UNCHANGED aside
  \/ (\E i \in 1..Len(inflight), f \in CompletionFailures :
        ~direct(inflight[i]) /\ RespondFailure(i, f)) /\ UNCHANGED aside
  \/ handleAICompletion /\ UNCHANGED aside
  \/ (\E i \in 1..Len(inflight), raw \in RawResponses : CompletionAnswered(i, raw))
       /\ UNCHANGED aside
  \/ (\E i \in 1..Len(inflight), f \in CompletionFailures : CompletionFailed(i, f))
       /\ UNCHANGED aside

SpecCompletion == Init /\ [][NextCompletion]_vars

\* C38: aiCompletionInProgress is true exactly while a request of
\* handleAIPreviewCompletion or of handleAICompletion awaits its answer:
\* every way either handler ends (context not suitable, service not
\* available, answer from the cache, answer stored or empty, error) leaves
\* it false.
C38_InProgressOnlyWhileAwaiting ==
  aiCompletionInProgress <=> inflight # <<>>

\* a request of either handler has failed and the flag is down again
C38_FlagResetAfterError ==
  /\ last.op \in {"response", "completed"}
  /\ last.outcome \in Failures
  /\ ~aiCompletionInProgress

(***************************************************************************)
(* TextBuffer by itself (src/src/text-buffer.js): a buffer as its          *)
(* constructor leaves it, then its edit and movement operations in any     *)
(* order.                                                                  *)
(***************************************************************************)
\* the content after the constructor: no file, and a file of three lines,
\* split at the newlines
OpenedContents == {<<"">>, <<"ab", "", "c">>}

\* the characters inserted: a letter, and a character of two code units
InsertedChars == {"x", "<>"}

InitBuffer ==
  /\ Constructed
  /\ apiKey = ""
  /\ sanitizing = NotSanitizing
  /\ codeContext = NoContext
  /\ screen = NoScreen

\* new TextBuffer(filePath) for a file of the given content
OpenBuffer(content) ==
  /\ last.op = "init"
  /\ buffer' = [content |-> content, row |-> 0, col |-> 0, modified |-> FALSE]
  /\ last' = Did("buffer", "constructor")
  /\ UNCHANGED edits

\* one operation of the buffer, named as the method is
BufferOperation(name, b) ==
  /\ last.op = "buffer"
  /\ buffer' = b
  /\ last' = Did("buffer", name)

Edits ==
  /\ edits < MaxEdits
  /\ edits' = edits + 1
  /\ \/ \E ch \in InsertedChars : BufferOperation("insertCharacter", insertCharacter(buffer, ch))
     \/ BufferOperation("insertNewLine", insertNewLine(buffer))
     \/ BufferOperation("deleteCharacter", deleteCharacter(buffer))

Moves ==
  /\ UNCHANGED edits
  /\ \/ BufferOperation("moveCursorUp", moveCursorUp(buffer))
     \/ BufferOperation("moveCursorDown", moveCursorDown(buffer))
     \/ BufferOperation("moveCursorLeft", moveCursorLeft(buffer))
     \/ BufferOperation("moveCursorRight", moveCursorRight(buffer))

\* the fields of the editor outside the buffer
besideBuffer ==
  <<currentMode, commandBuffer, enabled, apiKey, cache, aiCompletionInProgress,
    aiPreviewSuggestion, aiPreviewTimeout, timers, inflight, screenGhost, message, running,
    calls>>

NextBuffer ==
  \/ (\E content \in OpenedContents : OpenBuffer(content)) /\ UNCHANGED <<besideBuffer, aside>>
  \/ Edits /\ UNCHANGED <<besideBuffer, aside>>
  \/ Moves /\ UNCHANGED <<besideBuffer, aside>>

SpecBuffer == InitBuffer /\ [][NextBuffer]_vars

\* C39: after any sequence of insertCharacter, insertNewLine,
\* deleteCharacter and cursor movements the buffer holds at least one line,
\* the cursor row is the index of a line, and the cursor column lies between
\* 0 and the length of that line.
C39_CursorInsideBuffer ==
  /\ Len(buffer.content) >= 1
  /\ 0 <= buffer.row /\ buffer.row < Len(buffer.content)
  /\ 0 <= buffer.col /\ buffer.col <= Len(bufLine(buffer))

\* the cursor moved up from a longer line onto a shorter one, after edits
C39_MovedUpOntoShorterLine ==
  /\ last.key = "moveCursorUp"
  /\ edits = MaxEdits
  /\ buffer.row < Len(buffer.content) - 1
  /\ buffer.col = Len(bufLine(buffer))
  /\ Len(buffer.content[buffer.row + 2]) > Len(bufLine(buffer))

(***************************************************************************)
(* The command-line entry point (bin/vimjs.js, src/unnamed/part_006:       *)
(* 195-233) and the constructors it runs (editor.js:21-26,                 *)
(* text-buffer.js:13-28).  A file system is a function from the paths that *)
(* exist to their contents; null is written as the empty sequence for      *)
(* initialContent and as "" for a file name.                               *)
(***************************************************************************)
\* new TextBuffer(filePath, initialContent), loadFile included
TextBuffer(filePath, initialContent, disk) ==
  IF initialContent # <<>>
    THEN [content |-> splitLines(initialContent[1]), row |-> 0, col |-> 0, modified |-> TRUE]
  ELSE IF filePath # "" /\ filePath # "untitled" /\ filePath \in DOMAIN disk
    THEN [content |-> splitLines(disk[filePath]), row |-> 0, col |-> 0, modified |-> FALSE]
  ELSE [content |-> <<"">>, row |-> 0, col |-> 0, modified |-> FALSE]

\* the buffer of new Editor({filename, content}) as bin/vimjs.js calls it:
\* content is what the file holds, '' when there is no such file or no name
vimjs(argv, disk) ==
  LET filename == IF Len(argv) > 0 THEN argv[1] ELSE ""
      fileContent == IF filename # "" /\ filename \in DOMAIN disk THEN disk[filename] ELSE ""
  IN  TextBuffer(filename, <<fileContent>>, disk)

\* one file on disk
Disk == [filePath \in {"a.js"} |-> "let a = 1\n"]

\* no file named, the file that exists, a file that does not
CommandLines == {<<>>, <<"a.js">>, <<"new.js">>}

InitOpen ==
  /\ buffer \in {vimjs(argv, Disk) : argv \in CommandLines}
  /\ currentMode = "normal"
  /\ commandBuffer = ""
  /\ enabled = TRUE
  /\ apiKey \in ApiKeys
  /\ cache = <<>>
  /\ aiCompletionInProgress = FALSE
  /\ aiPreviewSuggestion = ""
  /\ aiPreviewTimeout = "null"
  /\ timers = 0
  /\ inflight = <<>>
  /\ screenGhost = ""
  /\ message = ""
  /\ running = TRUE
  /\ edits = 0
  /\ calls = 0
  /\ last = Did("init", "")
  /\ model = "llama3-8b-8192"
  /\ settings = InitialSettings
  /\ sanitizing = NotSanitizing
  /\ codeContext = NoContext
  /\ screen = NoScreen

\* the keys of :q, :q!, :w and :wq
QuitKeys == {"escape", "return", "q", "!", "w"}

NextOpen ==
  \/ (\E key \in {":", "i"} : handleNormalModeKeys(key)) /\ UNCHANGED aside
  \/ (\E key \in {"i", "escape"} : handleInsertModeKeys(key)) /\ UNCHANGED aside
  \/ \E key \in QuitKeys : handleCommandModeKeys(key)

SpecOpen == InitOpen /\ [][NextOpen]_vars

\* C40: a buffer opened by the command-line entry point (a file that
\* exists, a new file, or no file) and not edited since reports no unsaved
\* changes, and :q on it ends the editor.
C40_QuitRightAfterOpening ==
  [][edits = 0 => /\ last.op = "init" => ~buffer.modified
                  /\ Ran("q") => ~running']_vars

====
